---------------------------- MODULE Spec2Model ----------------------------
(***************************************************************************)
(* A model of asardeuce: the Pickle codec (pickle.py), the archive reader  *)
(* and its integrity verification (filesystem.py) and the package builder  *)
(* (api.py).                                                               *)
(*                                                                         *)
(* The module holds several state machines over one set of variables; each *)
(* specification initialises the machine it runs and parks the others.     *)
(*   SpecReader  Filesystem.seek / Filesystem.read                         *)
(*   SpecReaderFair  the same, with generators iterated to their end       *)
(*   SpecExtract one File.extract, from any cursor                         *)
(*   SpecIter    Filesystem.__iter__                                       *)
(*   SpecIterFair  the same, with a caller that keeps asking for entries   *)
(*   SpecPack    create_index / process_file                               *)
(*   SpecTrip    create_package followed by extract_all                    *)
(*   SpecPickle  Pickle writers, bytes(pickle), PickleIterator readers     *)
(*   SpecBuffer  Pickle(buf) on a given buffer, and PickleIterator reads   *)
(*   SpecOpen    Filesystem(fp) on the bytes of an archive, then seek/read *)
(*   SpecFiles   create_package_from_files on entry sequences, extract_all *)
(***************************************************************************)
EXTENDS Integers, Sequences, FiniteSets, TLC

VARIABLES
    \* ---- the underlying archive stream (BinaryIO) of a Filesystem
    fpData,        \* the bytes that follow the header block
    fpPos,         \* the stream's offset from the start of the archive
    fpSeekable,    \* FALSE: fp.seek raises io.UnsupportedOperation
    \* ---- Filesystem
    headerSize,    \* Filesystem.headerSize (the payload origin)
    position,      \* Filesystem.position (the cursor)
    \* ---- the call in progress on the reader
    pc,            \* "idle", or the place the running call is at
    op,            \* the last call started: [name, arg]
    res,           \* how the last call ended: "none" (running or none yet), "ok", or the error
    rd,            \* the running Filesystem.read generator: [size, start, chunks, sum]
    ex,            \* the locals of the running File.extract
    out,           \* the bytes File.extract wrote to its destination
    mark,          \* bookkeeping for the checks: the state when the call started
    \* ---- Filesystem.__iter__
    it,
    \* ---- create_index / process_file
    pk,
    \* ---- create_package followed by extract_all
    trip,
    \* ---- Pickle / PickleIterator
    pickle

readerVars == <<fpData, fpPos, fpSeekable, headerSize, position, pc, op, res, rd, ex, out, mark>>
\* What an action of one machine leaves alone: the other machines.
notReader == <<it, pk, trip, pickle>>
vars == <<fpData, fpPos, fpSeekable, headerSize, position, pc, op, res, rd, ex, out, mark,
          it, pk, trip, pickle>>

-----------------------------------------------------------------------------
(* Bounds of the model *)

\* Longest archive payload (bytes after the header) a reader is opened on.
MaxStream == 3
\* Largest Integrity.blockSize drawn.
MaxBlockSize == 2
\* Largest size of a File entry handed to the package builder.
MaxPackSize == 9
\* Largest Integrity.blockSize of a File entry handed to the package builder.
MaxPackBlock == 4
\* Integrity.blockSize of the entries walk_dir builds (block_size, 2**22 in the
\* source), scaled to the file sizes of the model.
WalkBlockSize == 4
\* Longest read_bytes asked of a PickleIterator opened on a given buffer.
MaxReadLength == 5
\* Most writes made on one Pickle.
MaxWrites == 2
\* Size of the header block that precedes the payload in the reader specification.
HdrLen == 4
\* Stand-in for BLOCK_SIZE = 8192 (filesystem.py:17), the most Filesystem.read asks
\* of the stream in one call, scaled so that a read of MaxSize bytes takes several.
BLOCK_SIZE == 2

-----------------------------------------------------------------------------
(* Values *)

Byte == {0, 1}

Min(a, b) == IF a < b THEN a ELSE b
Max(a, b) == IF a > b THEN a ELSE b

\* All sequences over S of length lo..hi.
SeqsOf(S, lo, hi) == UNION {[1..n -> S] : n \in lo..hi}

\* s[a:b] of Python, 0-based, clipped to the sequence.
Slice(s, a, b) == SubSeq(s, Min(a, Len(s)) + 1, Min(b, Len(s)))

\* hashlib.sha256(data).hexdigest(): the digest is modelled as collision-free, a
\* value that names the hashed bytes and nothing else.
Sha256(data) == <<"sha256", data>>

\* sha256 of no bytes, the constant the source spells out.
EMPTY_FILE_HASH == Sha256(<<>>)

\* Python's ==, between a bytes object and a str: the types differ, so it is False
\* whatever the contents.
PyBytes(b) == [type |-> "bytes", val |-> b]
PyStr(s) == [type |-> "str", val |-> s]
PyEq(x, y) == x.type = y.type /\ x.val = y.val

\* The value of a machine's variable in the specifications that do not run it.
Parked == [parked |-> TRUE]

\* Largest File.size, File.offset and seek or read argument drawn.
MaxSize == MaxStream
MaxOffset == MaxStream - 1


-----------------------------------------------------------------------------
(* Integrity records and File entries, as the reader is handed them *)

CeilDiv(a, b) == (a + b - 1) \div b

\* The digests File.extract compares against when it streams content c in blocks
\* of bs bytes: block i covers c[i*bs : (i+1)*bs]; an empty file carries the
\* single empty-content digest.
BlocksOf(c, bs) ==
    IF Len(c) = 0 THEN <<EMPTY_FILE_HASH>>
    ELSE [i \in 1..CeilDiv(Len(c), bs) |-> Sha256(Slice(c, (i - 1) * bs, i * bs))]

Integrity(h, bs, bl) == [algorithm |-> "SHA256", hash |-> h, blockSize |-> bs, blocks |-> bl]

File(size, offset, executable, integrity) ==
    [size |-> size, offset |-> offset, executable |-> executable, integrity |-> integrity]

\* The bytes of the payload at [off, off + size), zero-filled where the stream is
\* shorter (a truncated archive).
StreamAt(off, size) ==
    [i \in 1..size |-> IF off + i <= Len(fpData) THEN fpData[off + i] ELSE 0]

FlipAt(c, p) == [i \in 1..Len(c) |-> IF i = p THEN 1 - c[i] ELSE c[i]]

\* Ways the integrity record of an entry can disagree with the payload.
Tampers(size) ==
    {[kind |-> k, p |-> 0] : k \in {"none", "hash", "fewer", "more", "block"}}
        \cup {[kind |-> "flip", p |-> p] : p \in 1..size}

\* The content the integrity record of the entry was computed from.
OrigOf(off, size, t) ==
    IF t.kind = "flip" THEN FlipAt(StreamAt(off, size), t.p) ELSE StreamAt(off, size)

EntryOf(off, size, bs, t) ==
    LET c == OrigOf(off, size, t)
        good == BlocksOf(c, bs)
        h == IF t.kind = "hash" THEN Sha256(c \o <<0>>) ELSE Sha256(c)
        bl == CASE t.kind = "fewer" -> SubSeq(good, 1, Len(good) - 1)
                [] t.kind = "more" -> good \o <<EMPTY_FILE_HASH>>
                [] t.kind = "block" -> [good EXCEPT ![Len(good)] = Sha256(c \o <<1>>)]
                [] OTHER -> good
    IN File(size, off, FALSE, Integrity(h, bs, bl))

-----------------------------------------------------------------------------
(* The underlying stream *)

\* Bytes left in the stream at its current offset. The stream is before the
\* payload origin only when the header block ended with the stream.
Avail == IF fpPos < headerSize THEN 0 ELSE Max(0, Len(fpData) - (fpPos - headerSize))

\* The lengths fp.read(k) may return: nothing at the end of the stream, all k
\* bytes (or all that is left) of a regular file, any 1..k bytes of a pipe.
ReadLens(k) ==
    IF Avail = 0 \/ k = 0 THEN {0}
    ELSE IF fpSeekable THEN {Min(k, Avail)}
    ELSE 1..Min(k, Avail)

\* The n bytes at the stream's offset.
Peek(n) == StreamAt(fpPos - headerSize, n)

-----------------------------------------------------------------------------
(* Filesystem.read: a generator, one step per resumption *)

NoRd == [size |-> 0, start |-> FALSE, caller |-> "none", sum |-> 0, big |-> FALSE]

NewRd(size, caller) == [size |-> size, start |-> TRUE, caller |-> caller, sum |-> 0, big |-> FALSE]

\* `if data == '': raise IOError()`: the test the source makes on what fp.read
\* returned, a bytes object compared with a str.
IsEndOfStream(data) == PyEq(PyBytes(data), PyStr(<<>>))

\* What the consumer of the generator does with a chunk: File.extract writes and
\* hashes it, seek discards it, a direct caller receives it.
Consume(data) ==
    IF rd.caller = "extract"
    THEN /\ out' = out \o data
         /\ ex' = [ex EXCEPT !.block_hash = @ \o data, !.global_hash = @ \o data]
    ELSE UNCHANGED <<out, ex>>

\* `if not size: yield b''`
ReadYieldEmpty ==
    /\ pc = "read" /\ rd.start /\ rd.size = 0
    /\ rd' = [rd EXCEPT !.start = FALSE]
    /\ Consume(<<>>)
    /\ UNCHANGED <<fpData, fpPos, fpSeekable, headerSize, position, pc, op, res, mark, notReader>>

\* A request for all that is left of the read, in one call of fp.read.
ChunkSizeWhole(size) == size

\* `min(BLOCK_SIZE, size)`: what one call of fp.read is asked for.
ChunkSize(size) == Min(BLOCK_SIZE, size)

\* One turn of `while size > 0`: fp.read, the end-of-stream test, the cursor, the yield.
ReadChunk ==
    /\ pc = "read" /\ rd.size > 0
    /\ \E n \in ReadLens(ChunkSize(rd.size)) :
         LET data == Peek(n) IN
         /\ fpPos' = fpPos + n
         /\ mark' = [mark EXCEPT !.reads = TRUE, !.eof = @ \/ n = 0]
         /\ IF IsEndOfStream(data)
            THEN /\ res' = "IOError" /\ pc' = "idle"
                 /\ UNCHANGED <<position, rd, out, ex>>
            ELSE /\ position' = position + n
                 /\ rd' = [rd EXCEPT !.size = @ - n, !.start = FALSE, !.sum = @ + n,
                                     !.big = @ \/ n > BLOCK_SIZE]
                 /\ Consume(data)
                 /\ UNCHANGED <<res, pc>>
    /\ UNCHANGED <<fpData, fpSeekable, headerSize, op, notReader>>

\* The generator is exhausted: control is back in the code that iterated it.
ReadReturn ==
    /\ pc = "read" /\ rd.size <= 0 /\ ~rd.start
    /\ CASE rd.caller = "extract" -> pc' = "x_check" /\ res' = res
         [] rd.caller = "x_seek" -> pc' = "x_body" /\ res' = res
         [] OTHER -> pc' = "idle" /\ res' = "ok"
    /\ UNCHANGED <<fpData, fpPos, fpSeekable, headerSize, position, op, rd, ex, out, mark, notReader>>

-----------------------------------------------------------------------------
(* Filesystem.seek *)

NewMark == [position |-> position, fpPos |-> fpPos, reads |-> FALSE, eof |-> FALSE,
            orig |-> <<>>, prev |-> op, prevRes |-> res]

\* A seek that also refuses to stay where the cursor is.
RewindsOrStays(target) == target <= position

\* `if position < self.position: raise RuntimeError("Cannot rewind stream")`
Rewinds(target) == target < position

\* The body of seek(p), called by `caller` ("seek": the API, "x_seek": File.extract);
\* `next` is where the caller goes on when seek returns at once.
SeekBody(p, caller, next) ==
    LET target == p + headerSize IN
    IF Rewinds(target)
    THEN /\ res' = "RewindError" /\ pc' = "idle"
         /\ UNCHANGED <<fpPos, position, rd>>
    ELSE IF fpSeekable
    THEN /\ fpPos' = target /\ position' = target
         /\ pc' = next /\ res' = IF next = "idle" THEN "ok" ELSE "none"
         /\ UNCHANGED rd
    ELSE /\ rd' = NewRd(target - position, caller)
         /\ pc' = "read" /\ res' = "none"
         /\ UNCHANGED <<fpPos, position>>

Seek(p) ==
    /\ pc = "idle"
    /\ op' = [name |-> "seek", arg |-> p]
    /\ mark' = NewMark
    /\ SeekBody(p, "seek", "idle")
    /\ UNCHANGED <<fpData, fpSeekable, headerSize, ex, out, notReader>>

\* A direct call of Filesystem.read(size), iterated to its end.
Read(size) ==
    /\ pc = "idle"
    /\ op' = [name |-> "read", arg |-> size]
    /\ mark' = NewMark
    /\ rd' = NewRd(size, "read")
    /\ pc' = "read" /\ res' = "none"
    /\ UNCHANGED <<fpData, fpPos, fpSeekable, headerSize, position, ex, out, notReader>>

-----------------------------------------------------------------------------
(* File.extract *)

NoEx == [file |-> File(0, 0, FALSE, Integrity(EMPTY_FILE_HASH, 1, <<>>)),
         total_size |-> 0, block |-> 0, block_size |-> 0,
         block_hash |-> <<>>, global_hash |-> <<>>, errBlock |-> -1]

\* total_size, global_hash, then self.filesystem.seek(self.offset)
ExtractCore(f, orig) ==
    /\ pc = "idle"
    /\ op' = [name |-> "extract", arg |-> f.offset]
    /\ mark' = [NewMark EXCEPT !.orig = orig]
    /\ ex' = [NoEx EXCEPT !.file = f, !.total_size = f.size]
    /\ out' = <<>>
    /\ SeekBody(f.offset, "x_seek", "x_body")
    /\ UNCHANGED <<fpData, fpSeekable, headerSize>>

\* File.extract called on a Filesystem by itself.
Extract(f, orig) == ExtractCore(f, orig) /\ UNCHANGED notReader

\* The sentinel test of the quick path for empty files.
EmptySentinelOk(integrity) ==
    ~ (\/ integrity.hash # EMPTY_FILE_HASH
       \/ Len(integrity.blocks) # 1
       \/ integrity.blocks[1] # EMPTY_FILE_HASH)

\* After the seek: the quick path for empty files, or on to the block loop.
ExtractBody ==
    /\ pc = "x_body"
    /\ IF ex.total_size = 0
       THEN /\ pc' = "idle"
            /\ res' = IF EmptySentinelOk(ex.file.integrity) THEN "ok" ELSE "IntegrityError"
       ELSE pc' = "x_loop" /\ res' = res
    /\ UNCHANGED <<fpData, fpPos, fpSeekable, headerSize, position, op, rd, ex, out, mark, notReader>>

\* A whole-file check that lets every content pass.
WholeNeverDiffers(actual, expected) == FALSE

\* `if actual != expected`, on the whole-file digest.
WholeDiffers(actual, expected) == actual # expected

\* `while total_size > 0`: start reading the next block, or leave the loop and
\* compare the whole-file digest.
ExtractLoop ==
    /\ pc = "x_loop"
    /\ IF ex.total_size > 0
       THEN LET block_size == Min(ex.file.integrity.blockSize, ex.total_size) IN
            /\ ex' = [ex EXCEPT !.block_size = block_size, !.block_hash = <<>>]
            /\ rd' = NewRd(block_size, "extract")
            /\ pc' = "read" /\ res' = res
       ELSE /\ pc' = "idle"
            /\ res' = IF WholeDiffers(Sha256(ex.global_hash), ex.file.integrity.hash)
                      THEN "IntegrityError" ELSE "ok"
            /\ UNCHANGED <<ex, rd>>
    /\ UNCHANGED <<fpData, fpPos, fpSeekable, headerSize, position, op, out, mark, notReader>>

\* A block check that lets every block pass.
BlockNeverDiffers(actual, expected) == FALSE

\* `if actual != expected`, on a block's digest.
BlockDiffers(actual, expected) == actual # expected

\* After a block: blocks[block] against the block's digest.
ExtractCheck ==
    /\ pc = "x_check"
    /\ IF ex.block + 1 > Len(ex.file.integrity.blocks)
       THEN pc' = "idle" /\ res' = "IndexError" /\ ex' = ex
       ELSE IF BlockDiffers(Sha256(ex.block_hash), ex.file.integrity.blocks[ex.block + 1])
       THEN pc' = "idle" /\ res' = "IntegrityError" /\ ex' = [ex EXCEPT !.errBlock = ex.block]
       ELSE /\ ex' = [ex EXCEPT !.total_size = @ - ex.block_size, !.block = @ + 1]
            /\ pc' = "x_loop" /\ res' = res
    /\ UNCHANGED <<fpData, fpPos, fpSeekable, headerSize, position, op, rd, out, mark, notReader>>

ExtractAny ==
    \E off \in 0..MaxOffset, size \in 0..MaxSize, bs \in 1..MaxBlockSize :
        \E t \in Tampers(size) :
            Extract(EntryOf(off, size, bs, t), OrigOf(off, size, t))

SeekAny == \E p \in 0..MaxOffset : Seek(p)

ReadAny == \E size \in 0..MaxSize : Read(size)

-----------------------------------------------------------------------------
(* The reader specifications: a Filesystem opened on an archive *)

\* Filesystem.__init__ leaves the cursor and the stream at the payload origin.
InitReader ==
    /\ fpData \in SeqsOf(Byte, 0, MaxStream)
    /\ fpSeekable \in BOOLEAN
    /\ headerSize = 8 + HdrLen
    /\ position = headerSize
    /\ fpPos = headerSize
    /\ pc = "idle" /\ op = [name |-> "none", arg |-> 0] /\ res = "none"
    /\ rd = NoRd /\ ex = NoEx /\ out = <<>>
    /\ mark = [position |-> 8 + HdrLen, fpPos |-> 8 + HdrLen, reads |-> FALSE,
               eof |-> FALSE, orig |-> <<>>, prev |-> [name |-> "none", arg |-> 0],
               prevRes |-> "none"]
    /\ it = Parked /\ pk = Parked /\ trip = Parked /\ pickle = Parked

\* Any sequence of seek and read calls on the Filesystem.
NextReader ==
    \/ SeekAny
    \/ ReadAny
    \/ ReadYieldEmpty
    \/ ReadChunk
    \/ ReadReturn

SpecReader == InitReader /\ [][NextReader]_vars

\* The same, with a consumer that iterates every generator it started to its end.
SpecReaderFair ==
    /\ SpecReader
    /\ WF_vars(ReadYieldEmpty) /\ WF_vars(ReadChunk) /\ WF_vars(ReadReturn)

\* A Filesystem whose cursor earlier calls have moved: anywhere from the payload
\* origin on, and within the stream when the stream cannot seek (its cursor then
\* only advances by reading).
InitExtract ==
    /\ fpData \in SeqsOf(Byte, 0, MaxStream)
    /\ fpSeekable \in BOOLEAN
    /\ headerSize = 8 + HdrLen
    /\ position \in {8 + HdrLen + d : d \in 0..(IF fpSeekable THEN MaxStream ELSE Len(fpData))}
    /\ fpPos = position
    /\ pc = "idle" /\ op = [name |-> "none", arg |-> 0] /\ res = "none"
    /\ rd = NoRd /\ ex = NoEx /\ out = <<>>
    /\ mark = [position |-> position, fpPos |-> position, reads |-> FALSE,
               eof |-> FALSE, orig |-> <<>>, prev |-> [name |-> "none", arg |-> 0],
               prevRes |-> "none"]
    /\ it = Parked /\ pk = Parked /\ trip = Parked /\ pickle = Parked

\* One File.extract from that state, step by step.
ExtractOnce == op.name = "none" /\ ExtractAny

NextExtract ==
    \/ ExtractOnce
    \/ ReadYieldEmpty
    \/ ReadChunk
    \/ ReadReturn
    \/ ExtractBody
    \/ ExtractLoop
    \/ ExtractCheck

SpecExtract == InitExtract /\ [][NextExtract]_vars

-----------------------------------------------------------------------------
(* Claims about the reader *)

\* The positions at which contents a and b of one length differ.
DiffAt(a, b) == {i \in 1..Len(a) : a[i] # b[i]}

\* The entry being extracted carries the integrity record of content mark.orig, the
\* payload holds the whole of it but for one altered byte, and the cursor is not
\* past the entry's offset.
OneByteAltered ==
    LET f == ex.file IN
    /\ op.name = "extract" /\ f.size > 0
    /\ f.integrity.hash = Sha256(mark.orig)
    /\ f.integrity.blocks = BlocksOf(mark.orig, f.integrity.blockSize)
    /\ f.offset + f.size <= Len(fpData)
    /\ Cardinality(DiffAt(mark.orig, StreamAt(f.offset, f.size))) = 1
    /\ headerSize + f.offset >= mark.position

\* The 0-based index of the block holding the altered byte.
AlteredBlock ==
    LET f == ex.file
        p == CHOOSE i \in DiffAt(mark.orig, StreamAt(f.offset, f.size)) : TRUE
    IN (p - 1) \div f.integrity.blockSize

\* C3: extracting a File of size > 0 whose integrity record matches its payload
\* but for one altered byte at position p ends with an integrity error that
\* reports block floor(p / blockSize); nothing past that block is read from the
\* archive or written to the destination.
C3_AlteredByteReported ==
    OneByteAltered =>
        LET f == ex.file
            last == Min((AlteredBlock + 1) * f.integrity.blockSize, f.size)
        IN /\ pc = "idle" => res = "IntegrityError" /\ ex.errBlock = AlteredBlock
           /\ Len(out) <= last
           /\ position <= headerSize + f.offset + last
           /\ fpPos <= headerSize + f.offset + last

\* An altered byte in the second block of a file has been reported.
C3_Witness ==
    /\ OneByteAltered /\ pc = "idle" /\ res = "IntegrityError"
    /\ AlteredBlock = 1 /\ ex.errBlock = 1 /\ Len(out) > ex.file.integrity.blockSize

\* C4: extracting a File of size 0 reads nothing from the archive stream and
\* succeeds exactly when hash and the single block are the empty-content digest,
\* failing with an integrity error otherwise, whatever the cursor and the offset.
C4_EmptyFileShortCircuit ==
    (op.name = "extract" /\ ex.file.size = 0) =>
        /\ ~mark.reads
        /\ pc = "idle" =>
            /\ res = "ok" <=> EmptySentinelOk(ex.file.integrity)
            /\ res # "ok" => res = "IntegrityError"

\* C8: seek(p) fails with a rewind error exactly when headerSize + p is before the
\* cursor, and then moves neither the cursor nor the stream (so seek(p2) after a
\* seek(p1) with p2 < p1 fails); when it returns, the cursor is headerSize + p.
C8_SeekForwardOnly ==
    op.name = "seek" =>
        /\ headerSize + op.arg < mark.position
             => res = "RewindError" /\ position = mark.position /\ fpPos = mark.fpPos
        /\ res = "RewindError" => headerSize + op.arg < mark.position
        /\ (mark.prev.name = "seek" /\ mark.prevRes = "ok" /\ op.arg < mark.prev.arg)
             => res = "RewindError"
        /\ (pc = "idle" /\ res = "ok") => position = headerSize + op.arg

\* A seek back after a seek forward that went through the discard reads.
C8_Witness ==
    /\ op.name = "seek" /\ res = "RewindError" /\ ~fpSeekable
    /\ mark.prev.name = "seek" /\ mark.prevRes = "ok" /\ op.arg < mark.prev.arg
    /\ position = headerSize + mark.prev.arg

\* C9: once the stream has returned an empty read before the requested bytes were
\* delivered, the read has failed with an I/O error.
C9_EmptyReadFails ==
    mark.eof => res = "IOError"

-----------------------------------------------------------------------------
(* Paths: pathlib.PurePosixPath, over names that are sequences of characters *)

SEP == "/"
CURDIR == <<".">>
PARDIR == <<".", ".">>

\* Some entry names.
NameA == <<"a">>
NameB == <<"b">>
NameSneaky == <<".", ".", "s", "n", "e", "a", "k", "y">>
NameNested == <<"a", "/", "b">>
NameRooted == <<"/", "a">>
NameEmpty == <<>>

\* str.split(os.sep): the segments of a name between separators.
RECURSIVE SplitSep(_)
SplitSep(name) ==
    IF \A i \in 1..Len(name) : name[i] # SEP THEN <<name>>
    ELSE LET k == CHOOSE i \in 1..Len(name) :
                      name[i] = SEP /\ \A j \in 1..(i - 1) : name[j] # SEP
         IN <<SubSeq(name, 1, k - 1)>> \o SplitSep(SubSeq(name, k + 1, Len(name)))

\* The parts pathlib keeps of a string: empty segments and "." segments are dropped.
Parts(name) == SelectSeq(SplitSep(name), LAMBDA seg : seg # <<>> /\ seg # CURDIR)

\* Path("."), the path without parts.
DotPath == [root |-> FALSE, parts |-> <<>>]

\* parent / name: a name that starts with the separator replaces the parent.
JoinPath(parent, name) ==
    IF name # <<>> /\ name[1] = SEP
    THEN [root |-> TRUE, parts |-> Parts(name)]
    ELSE [root |-> parent.root, parts |-> parent.parts \o Parts(name)]

\* path.name: the last part, or the empty string.
PathName(path) == IF path.parts = <<>> THEN <<>> ELSE path.parts[Len(path.parts)]

\* path.parents, as a set: the paths of the proper prefixes of the parts.
PathParents(path) ==
    {[root |-> path.root, parts |-> SubSeq(path.parts, 1, n)] : n \in 0..(Len(path.parts) - 1)}

\* `os.sep in name`
SepIn(name) == \E i \in 1..Len(name) : name[i] = SEP

-----------------------------------------------------------------------------
(* The directory index: a mapping is a sequence of [k, v] items in the order of *)
(* the JSON object                                                             *)

FolderInfo(files) == [files |-> files]
SymlinkInfo(link) == [link |-> link]
FileInfo == [size |-> 0, offset |-> 0, executable |-> FALSE,
             integrity |-> Integrity(EMPTY_FILE_HASH, 1, <<EMPTY_FILE_HASH>>)]
Item(k, v) == [k |-> k, v |-> v]

\* The number of entries of a mapping, at every depth.
RECURSIVE CountEntries(_)
CountEntries(files) ==
    IF files = <<>> THEN 0
    ELSE 1 + (IF "files" \in DOMAIN Head(files).v THEN CountEntries(Head(files).v.files) ELSE 0)
           + CountEntries(Tail(files))

\* The names of a mapping's entries, at every depth.
RECURSIVE AllNames(_)
AllNames(files) ==
    IF files = <<>> THEN {}
    ELSE {Head(files).k}
           \cup (IF "files" \in DOMAIN Head(files).v THEN AllNames(Head(files).v.files) ELSE {})
           \cup AllNames(Tail(files))

-----------------------------------------------------------------------------
(* Filesystem.__iter__: a generator, one step per resumption *)

\* A traversal that does not look for separators.
NameChecksNoSep(name, fullpath) ==
    /\ PathName(fullpath) # CURDIR
    /\ PathName(fullpath) # PARDIR /\ [root |-> FALSE, parts |-> <<PARDIR>>] \notin PathParents(fullpath)

\* The three assertions on a child's name and path.
NameChecks(name, fullpath) ==
    /\ ~SepIn(name)
    /\ PathName(fullpath) # CURDIR
    /\ PathName(fullpath) # PARDIR /\ [root |-> FALSE, parts |-> <<PARDIR>>] \notin PathParents(fullpath)

\* The inner loop: queue entries whose iterator is exhausted are popped.
RECURSIVE DropExhausted(_)
DropExhausted(queue) ==
    IF queue # <<>> /\ Head(queue).items = <<>> THEN DropExhausted(Tail(queue)) ELSE queue

\* The Node yielded for an item (name and parent are kept for the checks).
NodeOf(name, parent, fullpath, info) ==
    [type |-> IF "link" \in DOMAIN info THEN "Symlink"
              ELSE IF "files" \in DOMAIN info THEN "Folder" ELSE "File",
     fullpath |-> fullpath, name |-> name, parent |-> parent, info |-> info]

\* again, prev, prevErr are kept for the checks: whether the Filesystem was
\* iterated before, and what that pass yielded and raised.
NewIter(header) ==
    [header |-> header, queue |-> <<[parent |-> DotPath, items |-> header.files]>>,
     yielded |-> <<>>, done |-> FALSE, err |-> "none", failed |-> <<>>,
     again |-> FALSE, prev |-> <<>>, prevErr |-> "none"]

\* A second pass over what the first pass left of the children: nothing.
RestartSpent(g) ==
    [NewIter(g.header) EXCEPT !.queue = <<>>, !.again = TRUE, !.prev = g.yielded,
                              !.prevErr = g.err]

\* __iter__ called again: a new queue, over the items of self.header['files'].
Restart(g) ==
    [NewIter(g.header) EXCEPT !.again = TRUE, !.prev = g.yielded, !.prevErr = g.err]

\* A queue that takes the children of a folder at its end.
QueueAppend(queue, entry) == queue \o <<entry>>

\* queue.insert(0, (fullpath, iter(info['files'].items())))
QueueInsert(queue, entry) == <<entry>> \o queue

\* The generator g after next(): run up to the next yield, the return or the
\* failed assertion.
IterAdvance(g) ==
    LET q == DropExhausted(g.queue) IN
    IF q = <<>> THEN [g EXCEPT !.queue = q, !.done = TRUE]
    ELSE LET parent == Head(q).parent
             item == Head(Head(q).items)
             rest == [q EXCEPT ![1].items = Tail(@)]
             fullpath == JoinPath(parent, item.k)
         IN IF ~NameChecks(item.k, fullpath)
            THEN [g EXCEPT !.queue = rest, !.err = "AssertionError", !.failed = item.k]
            ELSE [g EXCEPT
                     !.yielded = Append(@, NodeOf(item.k, parent, fullpath, item.v)),
                     !.queue = IF "link" \notin DOMAIN item.v /\ "files" \in DOMAIN item.v
                               THEN QueueInsert(rest, [parent |-> fullpath,
                                                       items |-> item.v.files])
                               ELSE rest]

\* next() on the generator of a Filesystem iterated by itself.
IterNext ==
    /\ ~it.done /\ it.err = "none"
    /\ it' = IterAdvance(it)
    /\ UNCHANGED <<readerVars, pk, trip, pickle>>

\* Iterating the same Filesystem again: a new generator over the same header.
IterAgain ==
    /\ it.done \/ it.err # "none"
    /\ it.yielded # <<>> \/ it.err # "none"
    /\ it' = Restart(it)
    /\ UNCHANGED <<readerVars, pk, trip, pickle>>

\* The names the indexes of the traversal specification draw from.
IterNames == {NameA, NameB, CURDIR, PARDIR, NameSneaky, NameNested, NameRooted, NameEmpty}

\* Index mappings of up to three entries and up to three levels, over names n1, n2, n3.
IndexShapes(n1, n2, n3) ==
    { <<Item(n1, FileInfo)>>,
      <<Item(n1, SymlinkInfo(NameB))>>,
      <<Item(n1, FolderInfo(<<>>))>>,
      <<Item(n1, FolderInfo(<<Item(n2, FileInfo)>>))>>,
      <<Item(n1, FolderInfo(<<Item(n2, FileInfo)>>)), Item(n3, FileInfo)>>,
      <<Item(n1, FileInfo), Item(n2, FolderInfo(<<Item(n3, SymlinkInfo(NameA))>>))>>,
      <<Item(n1, FolderInfo(<<Item(n2, FolderInfo(<<Item(n3, FileInfo)>>))>>))>>,
      <<Item(n1, FolderInfo(<<Item(n2, FileInfo), Item(n3, FileInfo)>>))>> }

\* The keys of every mapping are distinct, as in any parsed JSON object.
RECURSIVE UniqueKeys(_)
UniqueKeys(files) ==
    /\ \A i, j \in 1..Len(files) : files[i].k = files[j].k => i = j
    /\ \A i \in 1..Len(files) : "files" \in DOMAIN files[i].v => UniqueKeys(files[i].v.files)

IterHeaders ==
    {[files |-> f] : f \in {g \in UNION {IndexShapes(n1, n2, n3) : n1, n2, n3 \in IterNames} :
                             UniqueKeys(g)}}

\* The reader variables of a Filesystem nothing is read from.
QuietReader ==
    /\ fpData = <<>> /\ fpSeekable = TRUE
    /\ headerSize = 8 + HdrLen /\ position = headerSize /\ fpPos = headerSize
    /\ pc = "idle" /\ op = [name |-> "none", arg |-> 0] /\ res = "none"
    /\ rd = NoRd /\ ex = NoEx /\ out = <<>>
    /\ mark = [position |-> 8 + HdrLen, fpPos |-> 8 + HdrLen, reads |-> FALSE,
               eof |-> FALSE, orig |-> <<>>, prev |-> [name |-> "none", arg |-> 0],
               prevRes |-> "none"]

InitIter ==
    /\ QuietReader
    /\ it \in {NewIter(h) : h \in IterHeaders}
    /\ pk = Parked /\ trip = Parked /\ pickle = Parked

NextIter ==
    \/ IterNext
    \/ IterAgain

SpecIter == InitIter /\ [][NextIter]_vars

\* The loop that iterates the generator keeps calling next() until it is exhausted.
SpecIterFair == SpecIter /\ WF_vars(IterNext)

-----------------------------------------------------------------------------
(* Claims about the traversal *)

Yielded == {it.yielded[i] : i \in 1..Len(it.yielded)}

\* The claim C6 as the specification words it: no entry named "..sneaky", no
\* entry whose name holds a separator, nothing at or below a folder named ".." is
\* ever yielded.
C6_SneakyAndSeparatorsRejected ==
    \A y \in Yielded :
        /\ y.name # NameSneaky
        /\ ~SepIn(y.name)
        /\ \A i \in 1..Len(y.fullpath.parts) : y.fullpath.parts[i] # PARDIR

\* C6, as amended: an entry whose name holds a path separator and an entry named
\* ".." are rejected before being yielded, so nothing at or below a folder named
\* ".." is yielded and a traversal that completes has met no such name; a name
\* that merely starts with two dots, as "..sneaky", is not rejected for that: a
\* traversal that completes has yielded every entry of the index.
C6_SeparatorsAndPardirRejected ==
    /\ \A y \in Yielded :
        /\ ~SepIn(y.name)
        /\ y.name # PARDIR
        /\ \A i \in 1..Len(y.fullpath.parts) : y.fullpath.parts[i] # PARDIR
    /\ it.err # "none" =>
        /\ it.err = "AssertionError"
        /\ SepIn(it.failed) \/ it.failed = PARDIR
    /\ (it.done /\ it.err = "none") =>
        /\ \A n \in AllNames(it.header.files) : ~SepIn(n) /\ n # PARDIR
        /\ Len(it.yielded) = CountEntries(it.header.files)

\* A traversal met a name with a separator below a folder it had yielded, and failed.
C6_Witness ==
    /\ it.err = "AssertionError" /\ SepIn(it.failed)
    /\ Len(it.yielded) = 1 /\ it.yielded[1].type = "Folder"

\* An entry named "..sneaky" was yielded like any other.
C6_SneakyYielded ==
    \E y \in Yielded : y.name = NameSneaky /\ y.fullpath.parts = <<NameA, NameSneaky>>

\* C7: no child named "." or ".." is yielded, at any depth; no yielded Node has
\* the archive root or its parent folder's own path as its fullpath, or a ".."
\* segment in it.
C7_DotAndPardirRejected ==
    \A y \in Yielded :
        /\ y.name # CURDIR /\ y.name # PARDIR
        /\ y.fullpath # DotPath
        /\ y.fullpath # y.parent
        /\ \A i \in 1..Len(y.fullpath.parts) : y.fullpath.parts[i] # PARDIR

-----------------------------------------------------------------------------
(* Python values of the index records *)

\* An int, and str(n): the decimal digits of n >= 0 as characters.
PyInt(n) == [type |-> "int", val |-> n]

Digit(d) == <<"0", "1", "2", "3", "4", "5", "6", "7", "8", "9">>[d + 1]

RECURSIVE DecStr(_)
DecStr(n) == IF n < 10 THEN <<Digit(n)>> ELSE DecStr(n \div 10) \o <<Digit(n % 10)>>

\* int(s) of a string of decimal digits.
DigitVal(c) == CHOOSE d \in 0..9 : Digit(d) = c

RECURSIVE ParseInt(_)
ParseInt(str) ==
    IF str = <<>> THEN 0
    ELSE 10 * ParseInt(SubSeq(str, 1, Len(str) - 1)) + DigitVal(str[Len(str)])

\* The int a File is built with from an offset of the index: an int as it is, a
\* string of digits parsed.
OffsetInt(v) == IF v.type = "str" THEN ParseInt(v.val) ELSE v.val

-----------------------------------------------------------------------------
(* The entries handed to create_index: (Node, source stream) pairs *)

\* What fp.read delivers of a File's source: `data`, in full reads or, for a
\* pipe, in reads of any length.
Source(data, pipe) == [data |-> data, pipe |-> pipe]

FileEntry(fullpath, size, executable, integrity, source) ==
    [type |-> "File", fullpath |-> fullpath, size |-> size, offset |-> PyInt(0),
     executable |-> executable, integrity |-> integrity, source |-> source]

FolderEntry(fullpath) == [type |-> "Folder", fullpath |-> fullpath]

SymlinkEntry(fullpath, link) == [type |-> "Symlink", fullpath |-> fullpath, link |-> link]

\* entry.model_dump(exclude=("fullpath",)) of a File: the record of the index.
FileRecord(e) ==
    [size |-> e.size, offset |-> e.offset, executable |-> e.executable, integrity |-> e.integrity]

\* A test that finds no name taken.
HasNoKey(files, k) == FALSE

\* The item of a mapping under key k, or none.
HasKey(files, k) == \E i \in 1..Len(files) : files[i].k = k
ValueOf(files, k) == files[CHOOSE i \in 1..Len(files) : files[i].k = k].v

\* container = container[parent.name]["files"], along the parents of a path: the
\* mapping reached, or a KeyError when a parent is missing or is no folder.
RECURSIVE Descend(_, _)
Descend(files, parents) ==
    IF parents = <<>> THEN [ok |-> TRUE, files |-> files]
    ELSE IF ~HasKey(files, Head(parents)) THEN [ok |-> FALSE, files |-> <<>>]
    ELSE IF "files" \notin DOMAIN ValueOf(files, Head(parents)) THEN [ok |-> FALSE, files |-> <<>>]
    ELSE Descend(ValueOf(files, Head(parents)).files, Tail(parents))

\* container[name] = info, in the mapping reached along the parents.
RECURSIVE PutAt(_, _, _, _)
PutAt(files, parents, name, info) ==
    IF parents = <<>> THEN Append(files, Item(name, info))
    ELSE [i \in 1..Len(files) |->
            IF files[i].k = Head(parents)
            THEN Item(files[i].k,
                      [files[i].v EXCEPT !.files = PutAt(@, Tail(parents), name, info)])
            ELSE files[i]]

\* entry.fullpath.parents[:-1] reversed, by name; entry.fullpath.name.
ParentNames(fullpath) == SubSeq(fullpath, 1, Len(fullpath) - 1)
LeafName(fullpath) == IF fullpath = <<>> THEN <<>> ELSE fullpath[Len(fullpath)]

-----------------------------------------------------------------------------
(* Integers of any size and struct.Struct("<i"), ("<L"), ("<q"), ("<Q")    *)
(*                                                                         *)
(* A Python int is a sign and a magnitude, the magnitude a little-endian   *)
(* sequence of base-256 digits without leading zeros; the byte strings of  *)
(* the codec are sequences of 0..255.                                      *)

Big(neg, mag) == [neg |-> neg, mag |-> mag]

\* The magnitude without its leading (last) zero digits.
RECURSIVE Strip(_)
Strip(mag) ==
    IF mag # <<>> /\ mag[Len(mag)] = 0 THEN Strip(SubSeq(mag, 1, Len(mag) - 1)) ELSE mag

\* A natural number as a Python int, and back.
RECURSIVE NatDigits(_)
NatDigits(n) == IF n = 0 THEN <<>> ELSE <<n % 256>> \o NatDigits(n \div 256)

FromNat(n) == Big(FALSE, NatDigits(n))

RECURSIVE DigitsNat(_)
DigitsNat(mag) == IF mag = <<>> THEN 0 ELSE mag[1] + 256 * DigitsNat(Tail(mag))

ToInt(v) == IF v.neg THEN 0 - DigitsNat(v.mag) ELSE DigitsNat(v.mag)

\* mag on w digits.
PadTo(mag, w) == [i \in 1..w |-> IF i <= Len(mag) THEN mag[i] ELSE 0]

\* 256^w - x for a w-digit x # 0: every digit inverted, then one added.
RECURSIVE AddOne(_)
AddOne(bs) ==
    IF bs = <<>> THEN <<>>
    ELSE IF bs[1] < 255 THEN <<bs[1] + 1>> \o Tail(bs)
    ELSE <<0>> \o AddOne(Tail(bs))

TwosComplement(bs) == AddOne([i \in 1..Len(bs) |-> 255 - bs[i]])

\* The range check of struct.pack for a w-byte format.
PackRange(v, w, signed) ==
    LET m == Strip(v.mag) IN
    IF ~signed THEN ~v.neg /\ Len(m) <= w
    ELSE IF ~v.neg THEN Len(m) < w \/ (Len(m) = w /\ m[w] < 128)
    ELSE \/ Len(m) < w
         \/ /\ Len(m) = w
            /\ \/ m[w] < 128
               \/ m[w] = 128 /\ \A i \in 1..(w - 1) : m[i] = 0

\* struct.pack: little-endian, two's complement for a negative value.
Pack(v, w) ==
    IF v.neg /\ Strip(v.mag) # <<>> THEN TwosComplement(PadTo(v.mag, w)) ELSE PadTo(v.mag, w)

\* An unpack that takes every format for unsigned.
UnpackUnsigned(bs, signed) == Big(FALSE, Strip(bs))

\* struct.unpack of the bytes of one value.
Unpack(bs, signed) ==
    IF signed /\ bs[Len(bs)] >= 128
    THEN Big(TRUE, Strip(TwosComplement(bs)))
    ELSE Big(FALSE, Strip(bs))

\* FMT_INT32, FMT_UINT32, FMT_INT64, FMT_UINT64: size and signedness.
FMT_INT32 == [size |-> 4, signed |-> TRUE]
FMT_UINT32 == [size |-> 4, signed |-> FALSE]
FMT_INT64 == [size |-> 8, signed |-> TRUE]
FMT_UINT64 == [size |-> 8, signed |-> FALSE]

-----------------------------------------------------------------------------
(* str.encode('utf-8') and bytes.decode('utf-8'): a string is a sequence of *)
(* code points                                                             *)

Utf8Char(cp) ==
    IF cp < 128 THEN <<cp>>
    ELSE IF cp < 2048 THEN <<192 + (cp \div 64), 128 + (cp % 64)>>
    ELSE IF cp < 65536
    THEN <<224 + (cp \div 4096), 128 + ((cp \div 64) % 64), 128 + (cp % 64)>>
    ELSE <<240 + (cp \div 262144), 128 + ((cp \div 4096) % 64), 128 + ((cp \div 64) % 64),
           128 + (cp % 64)>>

\* The encoding of a text is the encodings of its characters, in a row; a long
\* text is encoded half by half, which keeps the evaluation shallow.
RECURSIVE Utf8Encode(_)
Utf8Encode(str) ==
    IF str = <<>> THEN <<>>
    ELSE IF Len(str) = 1 THEN Utf8Char(str[1])
    ELSE LET h == Len(str) \div 2
         IN Utf8Encode(SubSeq(str, 1, h)) \o Utf8Encode(SubSeq(str, h + 1, Len(str)))

\* A place near the middle of a long byte string where a sequence starts if any
\* does (a byte that is no continuation byte), or 0: the bytes before it and the
\* bytes from it on are decoded apart.
Utf8Cut(bs) ==
    LET h == Len(bs) \div 2 + 1
        c == {m \in h..Min(h + 3, Len(bs)) : bs[m] < 128 \/ bs[m] >= 192}
    IN IF Len(bs) <= 8 \/ c = {} THEN 0 ELSE CHOOSE m \in c : \A o \in c : m <= o

\* bytes.decode('utf-8') accepts the bytes (it raises UnicodeDecodeError otherwise):
\* every sequence has a lead byte and the continuation bytes of a shortest form
\* that is no surrogate and no more than U+10FFFF.
RECURSIVE Utf8Valid(_)
Utf8Valid(bs) ==
    IF bs = <<>> THEN TRUE
    ELSE IF Utf8Cut(bs) > 0
    THEN /\ Utf8Valid(SubSeq(bs, 1, Utf8Cut(bs) - 1))
         /\ Utf8Valid(SubSeq(bs, Utf8Cut(bs), Len(bs)))
    ELSE LET b == bs[1]
             w == IF b < 128 THEN 1
                  ELSE IF b >= 194 /\ b < 224 THEN 2
                  ELSE IF b >= 224 /\ b < 240 THEN 3
                  ELSE IF b >= 240 /\ b < 245 THEN 4 ELSE 0
             lo == IF b = 224 THEN 160 ELSE IF b = 240 THEN 144 ELSE 128
             hi == IF b = 237 THEN 159 ELSE IF b = 244 THEN 143 ELSE 191
         IN /\ w > 0 /\ Len(bs) >= w
            /\ w >= 2 => bs[2] >= lo /\ bs[2] <= hi
            /\ \A k \in 3..w : bs[k] >= 128 /\ bs[k] <= 191
            /\ Utf8Valid(SubSeq(bs, w + 1, Len(bs)))

\* The bytes the sequence that starts with lead byte b takes.
Utf8Width(b) == IF b < 128 THEN 1 ELSE IF b < 224 THEN 2 ELSE IF b < 240 THEN 3 ELSE 4

RECURSIVE Utf8Decode(_)
Utf8Decode(bs) ==
    IF bs = <<>> THEN <<>>
    ELSE IF Utf8Cut(bs) > 0
    THEN Utf8Decode(SubSeq(bs, 1, Utf8Cut(bs) - 1)) \o Utf8Decode(SubSeq(bs, Utf8Cut(bs), Len(bs)))
    ELSE LET w == Min(Utf8Width(bs[1]), Len(bs))
             lead == CASE w = 1 -> bs[1] [] w = 2 -> bs[1] - 192
                       [] w = 3 -> bs[1] - 224 [] OTHER -> bs[1] - 240
             cont[k \in 1..w] == IF k = 1 THEN lead ELSE cont[k - 1] * 64 + (bs[k] - 128)
         IN <<cont[w]>> \o Utf8Decode(SubSeq(bs, w + 1, Len(bs)))

-----------------------------------------------------------------------------
(* Pickle *)

PAYLOAD_UNIT == 64

\* An alignment that leaves every size as it is.
AlignNone(i, alignment) == i

\* align_int(i, alignment)
AlignInt(i, alignment) == i + ((alignment - (i % alignment)) % alignment)

Zeros(n) == [i \in 1..n |-> 0]

\* bytearray slice assignment header[a:b] = data: the slice is clipped to the
\* array, and the array grows when data is longer than the slice.
SetSlice(header, a, b, data) ==
    LET lo == Min(a, Len(header))
        hi == Max(lo, Min(b, Len(header)))
    IN SubSeq(header, 1, lo) \o data \o SubSeq(header, hi + 1, Len(header))

\* bytearray.ljust(width): padded on the right with spaces (0x20) up to width.
Ljust(header, width) ==
    IF Len(header) >= width THEN header
    ELSE header \o [i \in 1..(width - Len(header)) |-> 32]

\* Pickle.get_payload_size / set_payload_size
GetPayloadSize(header) == ToInt(Unpack(SubSeq(header, 1, FMT_UINT32.size), FMT_UINT32.signed))

SetPayloadSize(p, payload_size) ==
    [p EXCEPT !.header = SetSlice(@, 0, FMT_UINT32.size, Pack(FromNat(payload_size), FMT_UINT32.size))]

\* Pickle.resize
Resize(p, new_capacity) ==
    LET cap == AlignInt(new_capacity, PAYLOAD_UNIT) IN
    [p EXCEPT !.header = @ \o Zeros(cap), !.capacityAfterHeader = cap]

\* Pickle(): the fresh pickle.
NewPickle ==
    SetPayloadSize(
        Resize([header |-> <<>>, headerSize |-> FMT_UINT32.size, capacityAfterHeader |-> 0,
                writeOffset |-> 0], PAYLOAD_UNIT),
        0)

\* Pickle.write_bytes
WriteBytes(p, data) ==
    LET length == Len(data)
        dataLength == AlignInt(length, FMT_UINT32.size)
        newSize == p.writeOffset + dataLength
        p1 == IF newSize > p.capacityAfterHeader
              THEN Resize(p, Max(p.capacityAfterHeader * 2, newSize)) ELSE p
        startOffset == p1.headerSize + p1.writeOffset
        endOffset == startOffset + length
        p2 == [p1 EXCEPT !.header =
                 Ljust(SetSlice(@, startOffset, startOffset + length, data),
                       endOffset + dataLength - length)]
    IN [SetPayloadSize(p2, newSize) EXCEPT !.writeOffset = newSize]

\* write_int, write_uint32, write_int64, write_uint64: struct.pack, then write_bytes.
WriteFmt(p, fmt, v) == WriteBytes(p, Pack(v, fmt.size))

\* write_bool
WriteBool(p, b) == WriteFmt(p, FMT_INT32, FromNat(IF b THEN 1 ELSE 0))

\* write_string
WriteString(p, str) ==
    LET value == Utf8Encode(str) IN
    WriteBytes(WriteFmt(p, FMT_INT32, FromNat(Len(value))), value)

\* bytes(pickle)
PickleBytes(p) == SubSeq(p.header, 1, Min(Len(p.header), p.headerSize + GetPayloadSize(p.header)))

\* 2^53 in the source, which the integers of the model cannot hold; the
\* program only ever compares a payload size with it, and every payload
\* size here is far below either value.
CAPACITY_READ_ONLY == 2147483647

\* Pickle(buf); unpack_from raises struct.error on a buffer of under 4 bytes.
PickleFromBuffer(buf) ==
    LET bufferLen == Len(buf)
        h0 == bufferLen - GetPayloadSize(buf)
        h1 == IF h0 > bufferLen THEN 0 ELSE h0
        h2 == IF h1 # AlignInt(h1, FMT_UINT32.size) THEN 0 ELSE h1
    IN [header |-> IF h2 = 0 THEN <<>> ELSE buf, headerSize |-> h2,
        capacityAfterHeader |-> CAPACITY_READ_ONLY, writeOffset |-> 0]

-----------------------------------------------------------------------------
(* PickleIterator *)

\* PickleIterator(pickle)
NewPickleIterator(p) ==
    [payload |-> p.header, payloadOffset |-> p.headerSize, readIndex |-> 0,
     endIndex |-> GetPayloadSize(p.header)]

\* An advance that does not align the size.
AdvanceUnaligned(itr, size) ==
    IF itr.endIndex < itr.readIndex + size
    THEN [itr EXCEPT !.readIndex = itr.endIndex]
    ELSE [itr EXCEPT !.readIndex = @ + size]

\* PickleIterator.advance
Advance(itr, size) ==
    LET alignedSize == AlignInt(size, FMT_UINT32.size) IN
    IF itr.endIndex < itr.readIndex + alignedSize
    THEN [itr EXCEPT !.readIndex = itr.endIndex]
    ELSE [itr EXCEPT !.readIndex = @ + alignedSize]

\* The outcome of one read: the iterator after it, the value, the exception.
Got(itr, val, err) == [itr |-> itr, val |-> val, err |-> err]

\* bytearray[a:b]: a negative index counts from the end, and both are clipped
\* to the array.
SliceIndex(i, n) == IF i < 0 THEN Max(i + n, 0) ELSE Min(i, n)
PySlice(s, a, b) == SubSeq(s, SliceIndex(a, Len(s)) + 1, SliceIndex(b, Len(s)))

\* A read_bytes that leaves the iterator where it is when it fails.
ReadBytesLeaves(itr, length) ==
    IF length > itr.endIndex - itr.readIndex
    THEN Got(itr, <<>>, "RuntimeError")
    ELSE LET readPayloadOffset == itr.payloadOffset + itr.readIndex IN
         Got(Advance(itr, length),
             PySlice(itr.payload, readPayloadOffset, readPayloadOffset + length), "none")

\* PickleIterator.read_bytes with get_read_payload_offset_and_advance
ReadBytes(itr, length) ==
    IF length > itr.endIndex - itr.readIndex
    THEN Got([itr EXCEPT !.readIndex = itr.endIndex], <<>>, "RuntimeError")
    ELSE LET readPayloadOffset == itr.payloadOffset + itr.readIndex IN
         Got(Advance(itr, length),
             PySlice(itr.payload, readPayloadOffset, readPayloadOffset + length), "none")

\* read_int, read_uint32, read_int64, read_uint64: read_bytes, then struct.unpack,
\* which raises struct.error unless it is handed exactly the bytes of the format.
ReadFmt(itr, fmt) ==
    LET r == ReadBytes(itr, fmt.size) IN
    IF r.err # "none" THEN r
    ELSE IF Len(r.val) # fmt.size THEN Got(r.itr, <<>>, "struct.error")
    ELSE Got(r.itr, Unpack(r.val, fmt.signed), "none")

\* FMT_FLOAT and FMT_DOUBLE; the value of a float is kept as its bytes.
FMT_FLOAT == [size |-> 4, signed |-> FALSE]
FMT_DOUBLE == [size |-> 8, signed |-> FALSE]

\* read_float, read_double
ReadFloat(itr, fmt) ==
    LET r == ReadBytes(itr, fmt.size) IN
    IF r.err # "none" THEN r
    ELSE IF Len(r.val) # fmt.size THEN Got(r.itr, <<>>, "struct.error")
    ELSE Got(r.itr, [float |-> r.val], "none")

\* read_bool
ReadBool(itr) ==
    LET r == ReadFmt(itr, FMT_INT32) IN
    IF r.err # "none" THEN r ELSE Got(r.itr, r.val # FromNat(0), "none")

\* read_string
ReadString(itr) ==
    LET r == ReadFmt(itr, FMT_INT32) IN
    IF r.err # "none" THEN r
    ELSE IF r.val.neg THEN Got(r.itr, <<>>, "AssertionError")
    ELSE LET b == ReadBytes(r.itr, ToInt(r.val)) IN
         IF b.err # "none" THEN b
         ELSE IF ~Utf8Valid(b.val) THEN Got(b.itr, <<>>, "UnicodeDecodeError")
         ELSE Got(b.itr, Utf8Decode(b.val), "none")

-----------------------------------------------------------------------------
(* json.dumps(index, separators=(',', ':')) and json.loads: a text is a      *)
(* sequence of code points                                                   *)

\* The printable ASCII characters, in the order of their code points: from the
\* space (32) to the underscore (95), and from "a" (97) on.
AsciiChars ==
    <<" ", "!", "\"", "#", "$", "%", "&", "'", "(", ")", "*", "+", ",", "-", ".", "/",
      "0", "1", "2", "3", "4", "5", "6", "7", "8", "9", ":", ";", "<", "=", ">", "?",
      "@", "A", "B", "C", "D", "E", "F", "G", "H", "I", "J", "K", "L", "M", "N", "O",
      "P", "Q", "R", "S", "T", "U", "V", "W", "X", "Y", "Z", "[", "\\", "]", "^", "_">>
AsciiLower ==
    <<"a", "b", "c", "d", "e", "f", "g", "h", "i", "j", "k", "l", "m", "n", "o",
      "p", "q", "r", "s", "t", "u", "v", "w", "x", "y", "z", "{", "|", "}", "~">>

\* ord(c) and chr(n)
CodeOf ==
    [c \in {AsciiChars[i] : i \in 1..Len(AsciiChars)}
              \cup {AsciiLower[i] : i \in 1..Len(AsciiLower)} |->
        IF \E i \in 1..Len(AsciiChars) : AsciiChars[i] = c
        THEN 31 + (CHOOSE i \in 1..Len(AsciiChars) : AsciiChars[i] = c)
        ELSE 96 + (CHOOSE i \in 1..Len(AsciiLower) : AsciiLower[i] = c)]
Chr(n) == IF n <= 95 THEN AsciiChars[n - 31] ELSE AsciiLower[n - 96]

\* A string of characters as a text, and back.
Text(chars) == [i \in 1..Len(chars) |-> CodeOf[chars[i]]]
Chars(text) == [i \in 1..Len(text) |-> Chr(text[i])]

\* The sequences of a sequence, in a row (half by half).
RECURSIVE Flatten(_)
Flatten(seqs) ==
    IF seqs = <<>> THEN <<>>
    ELSE IF Len(seqs) = 1 THEN seqs[1]
    ELSE LET h == Len(seqs) \div 2
         IN Flatten(SubSeq(seqs, 1, h)) \o Flatten(SubSeq(seqs, h + 1, Len(seqs)))

\* hashlib's hexdigest() of a digest: 64 hexadecimal digits. The digits of the
\* model determine the hashed bytes, as those of a digest without collisions
\* do: two digits a byte, then zeros, and the number of bytes in the last two.
HEX_DIGEST_LENGTH == 64
HexDigits == <<"0", "1", "2", "3", "4", "5", "6", "7", "8", "9", "a", "b", "c", "d", "e", "f">>
HexVal(cp) == (CHOOSE d \in 1..16 : CodeOf[HexDigits[d]] = cp) - 1

HexDigest(h) ==
    LET data == h[2]
        n == Len(data)
        byte(i) == IF i <= 2 * n THEN data[(i + 1) \div 2]
                   ELSE IF i >= HEX_DIGEST_LENGTH - 1 THEN n ELSE 0
    IN [i \in 1..HEX_DIGEST_LENGTH |->
          CodeOf[HexDigits[1 + (IF i % 2 = 1 THEN byte(i) \div 16 ELSE byte(i) % 16)]]]

\* The digest its digits stand for.
DigestOf(text) ==
    LET at(i) == 16 * HexVal(text[i]) + HexVal(text[i + 1])
        n == at(HEX_DIGEST_LENGTH - 1)
    IN Sha256([k \in 1..n |-> at(2 * k - 1)])

\* json.dumps of a str: between quotation marks, the quotation mark and the
\* backslash behind a backslash (the other characters of the names of the model
\* are printable ASCII, which is written as it is).
JsonEscape(cp) == IF cp = 34 \/ cp = 92 THEN <<92, cp>> ELSE <<cp>>
JsonString(text) == <<34>> \o Flatten([i \in 1..Len(text) |-> JsonEscape(text[i])]) \o <<34>>

\* json.dumps of an int (none is negative) and of a bool.
JsonInt(n) == Text(DecStr(n))
JsonBool(b) == Text(IF b THEN <<"t", "r", "u", "e">> ELSE <<"f", "a", "l", "s", "e">>)

\* A dict and a list with the separators (',', ':'): no white space.
JsonJoin(texts) == Flatten([i \in 1..Len(texts) |-> IF i = 1 THEN texts[i] ELSE <<44>> \o texts[i]])
JsonObject(members) == <<123>> \o JsonJoin(members) \o <<125>>
JsonArray(elements) == <<91>> \o JsonJoin(elements) \o <<93>>
JsonMember(key, text) == JsonString(Text(key)) \o <<58>> \o text

\* The keys of the index, and the one algorithm.
KeyFiles == <<"f", "i", "l", "e", "s">>
KeyLink == <<"l", "i", "n", "k">>
KeySize == <<"s", "i", "z", "e">>
KeyOffset == <<"o", "f", "f", "s", "e", "t">>
KeyExecutable == <<"e", "x", "e", "c", "u", "t", "a", "b", "l", "e">>
KeyIntegrity == <<"i", "n", "t", "e", "g", "r", "i", "t", "y">>
KeyAlgorithm == <<"a", "l", "g", "o", "r", "i", "t", "h", "m">>
KeyHash == <<"h", "a", "s", "h">>
KeyBlockSize == <<"b", "l", "o", "c", "k", "S", "i", "z", "e">>
KeyBlocks == <<"b", "l", "o", "c", "k", "s">>
TextSHA256 == <<"S", "H", "A", "2", "5", "6">>

\* An offset of a record: the str process_file set, or the int it was built with.
JsonPy(v) == IF v.type = "str" THEN JsonString(Text(v.val)) ELSE JsonInt(v.val)

\* The model_dump of an Integrity, in the order of its fields.
JsonIntegrity(g) ==
    JsonObject(<<JsonMember(KeyAlgorithm, JsonString(Text(TextSHA256))),
                 JsonMember(KeyHash, JsonString(HexDigest(g.hash))),
                 JsonMember(KeyBlockSize, JsonInt(g.blockSize)),
                 JsonMember(KeyBlocks,
                            JsonArray([i \in 1..Len(g.blocks) |-> JsonString(HexDigest(g.blocks[i]))]))>>)

\* json.dumps of a mapping of the index and of the records in it, in the order
\* of insertion.
RECURSIVE JsonFiles(_)
JsonInfo(v) ==
    IF "files" \in DOMAIN v THEN JsonObject(<<JsonMember(KeyFiles, JsonFiles(v.files))>>)
    ELSE IF "link" \in DOMAIN v THEN JsonObject(<<JsonMember(KeyLink, JsonString(Text(v.link)))>>)
    ELSE JsonObject(<<JsonMember(KeySize, JsonInt(v.size)),
                      JsonMember(KeyOffset, JsonPy(v.offset)),
                      JsonMember(KeyExecutable, JsonBool(v.executable)),
                      JsonMember(KeyIntegrity, JsonIntegrity(v.integrity))>>)

JsonFiles(files) ==
    JsonObject([i \in 1..Len(files) |-> JsonMember(files[i].k, JsonInfo(files[i].v))])

\* json.dumps(index, separators=(',', ':'))
JsonDumps(index) == JsonObject(<<JsonMember(KeyFiles, JsonFiles(index.files))>>)

\* The values json.loads builds.
JObject(items) == [j |-> "object", items |-> items]
JArray(items) == [j |-> "array", items |-> items]
JString(text) == [j |-> "string", val |-> text]
JNumber(n) == [j |-> "number", val |-> n]
JBool(b) == [j |-> "bool", val |-> b]
JNull == [j |-> "null"]

Parsed(val, next) == [ok |-> TRUE, val |-> val, next |-> next]
NotParsed == [ok |-> FALSE, val |-> JNull, next |-> 0]

\* The code point at a place of a text, 0 past its end.
At(text, i) == IF i \in 1..Len(text) THEN text[i] ELSE 0

\* The number of backslashes in a row just before a place.
BackslashesBefore(text, j) ==
    CHOOSE k \in 0..(j - 1) :
        /\ \A m \in 1..k : text[j - m] = 92
        /\ k = j - 1 \/ text[j - k - 1] # 92

\* A quotation mark that closes a string: no backslash escapes it.
Closes(text, j) == text[j] = 34 /\ BackslashesBefore(text, j) % 2 = 0

\* The text between quotation marks without the backslashes that escape.
Unescape(body) ==
    LET kept == SelectSeq([m \in 1..Len(body) |-> m],
                          LAMBDA m : ~(body[m] = 92 /\ BackslashesBefore(body, m) % 2 = 0))
    IN [k \in 1..Len(kept) |-> body[kept[k]]]

\* A string, from its opening quotation mark at place i.
ParseString(text, i) ==
    IF At(text, i) # 34 \/ ~\E j \in (i + 1)..Len(text) : Closes(text, j) THEN NotParsed
    ELSE LET j == CHOOSE j \in (i + 1)..Len(text) :
                      Closes(text, j) /\ \A k \in (i + 1)..(j - 1) : ~Closes(text, k)
         IN Parsed(JString(Unescape(SubSeq(text, i + 1, j - 1))), j + 1)

\* An int, from its first digit at place i.
IsDigit(cp) == cp >= 48 /\ cp <= 57
ParseNumber(text, i) ==
    LET j == CHOOSE j \in (i + 1)..(Len(text) + 1) :
                 ~IsDigit(At(text, j)) /\ \A k \in (i + 1)..(j - 1) : IsDigit(text[k])
    IN Parsed(JNumber(ParseInt(Chars(SubSeq(text, i, j - 1)))), j)

\* true, false or null at place i.
ParseLiteral(text, i, chars, val) ==
    IF SubSeq(text, i, Min(i + Len(chars) - 1, Len(text))) = Text(chars)
    THEN Parsed(val, i + Len(chars)) ELSE NotParsed

\* dict[key] = value: a key that is there already keeps its place.
DictPut(items, key, val) ==
    IF \E n \in 1..Len(items) : items[n].k = key
    THEN [n \in 1..Len(items) |-> IF items[n].k = key THEN Item(key, val) ELSE items[n]]
    ELSE Append(items, Item(key, val))

\* The value at place i of a text without white space between its tokens, as
\* json.dumps writes it with these separators; the members of an object and
\* the elements of an array, from the first at place i.
RECURSIVE ParseValue(_, _)
RECURSIVE ParseMembers(_, _, _)
RECURSIVE ParseElements(_, _, _)
ParseValue(text, i) ==
    LET c == At(text, i) IN
    IF c = 123
    THEN IF At(text, i + 1) = 125 THEN Parsed(JObject(<<>>), i + 2)
         ELSE ParseMembers(text, i + 1, <<>>)
    ELSE IF c = 91
    THEN IF At(text, i + 1) = 93 THEN Parsed(JArray(<<>>), i + 2)
         ELSE ParseElements(text, i + 1, <<>>)
    ELSE IF c = 34 THEN ParseString(text, i)
    ELSE IF IsDigit(c) THEN ParseNumber(text, i)
    ELSE IF c = 116 THEN ParseLiteral(text, i, <<"t", "r", "u", "e">>, JBool(TRUE))
    ELSE IF c = 102 THEN ParseLiteral(text, i, <<"f", "a", "l", "s", "e">>, JBool(FALSE))
    ELSE IF c = 110 THEN ParseLiteral(text, i, <<"n", "u", "l", "l">>, JNull)
    ELSE NotParsed

ParseMembers(text, i, items) ==
    LET key == ParseString(text, i) IN
    IF ~key.ok \/ At(text, key.next) # 58 THEN NotParsed
    ELSE LET v == ParseValue(text, key.next + 1) IN
         IF ~v.ok THEN NotParsed
         ELSE LET put == DictPut(items, key.val.val, v.val) IN
              IF At(text, v.next) = 44 THEN ParseMembers(text, v.next + 1, put)
              ELSE IF At(text, v.next) = 125 THEN Parsed(JObject(put), v.next + 1)
              ELSE NotParsed

ParseElements(text, i, items) ==
    LET v == ParseValue(text, i) IN
    IF ~v.ok THEN NotParsed
    ELSE IF At(text, v.next) = 44 THEN ParseElements(text, v.next + 1, Append(items, v.val))
    ELSE IF At(text, v.next) = 93 THEN Parsed(JArray(Append(items, v.val)), v.next + 1)
    ELSE NotParsed

\* json.loads(text): the one value of the text, or JSONDecodeError.
JsonLoads(text) ==
    LET r == ParseValue(text, 1) IN
    IF r.ok /\ r.next = Len(text) + 1 THEN r ELSE NotParsed

\* dict[key], and key in dict
JHas(obj, key) == obj.j = "object" /\ \E n \in 1..Len(obj.items) : obj.items[n].k = Text(key)
JGet(obj, key) == obj.items[CHOOSE n \in 1..Len(obj.items) : obj.items[n].k = Text(key)].v

\* The records of the index a parsed header holds: the mappings of the model
\* with their names as strings of characters and their digests.
RECURSIVE FilesOf(_)
InfoOf(obj) ==
    IF JHas(obj, KeyLink) THEN SymlinkInfo(Chars(JGet(obj, KeyLink).val))
    ELSE IF JHas(obj, KeyFiles) THEN FolderInfo(FilesOf(JGet(obj, KeyFiles)))
    ELSE LET g == JGet(obj, KeyIntegrity)
             offset == JGet(obj, KeyOffset)
             blocks == JGet(g, KeyBlocks).items
         IN [size |-> JGet(obj, KeySize).val,
             offset |-> IF offset.j = "string" THEN PyStr(Chars(offset.val)) ELSE PyInt(offset.val),
             executable |-> JGet(obj, KeyExecutable).val,
             integrity |-> Integrity(DigestOf(JGet(g, KeyHash).val), JGet(g, KeyBlockSize).val,
                                     [n \in 1..Len(blocks) |-> DigestOf(blocks[n].val)])]

FilesOf(obj) == [n \in 1..Len(obj.items) |-> Item(Chars(obj.items[n].k), InfoOf(obj.items[n].v))]

HeaderOf(obj) == [files |-> FilesOf(JGet(obj, KeyFiles))]

-----------------------------------------------------------------------------
(* process_file and create_index, one step per entry and per fp.read *)

NoPf == [sofar |-> 0, buf |-> <<>>, global_hasher |-> <<>>, block_hasher |-> <<>>,
         pos |-> 0, reads |-> FALSE]

\* The lengths fp.read(k) may return on an entry's source at position pos: what is
\* left when k < 0, nothing when k = 0 or at the end.
SourceReadLens(source, pos, k) ==
    LET left == Len(source.data) - pos IN
    IF k = 0 \/ left = 0 THEN {0}
    ELSE IF k < 0 THEN {left}
    ELSE IF source.pipe THEN 1..Min(k, left)
    ELSE {Min(k, left)}

\* block_size and read_size of one turn of the loop of process_file.
PfBlockSize(size, blockSize) == Min(blockSize, size % blockSize)
PfReadSize(size, blockSize, sofar) == PfBlockSize(size, blockSize) - (sofar % blockSize)

NewPack(src) ==
    [src |-> src, n |-> 0, cur |-> FolderEntry(<<>>), phase |-> "index",
     index |-> [files |-> <<>>], offset |-> 0, tmpfile |-> <<>>, pf |-> NoPf,
     err |-> "none", dest |-> <<>>, tmpOpen |-> TRUE]

\* An exception that leaves the temporary file open behind it.
PackFailLeaks(e) == [pk EXCEPT !.phase = "failed", !.err = e]

\* `finally`, and the end of `with tempfile.TemporaryFile`: the exception leaves
\* create_package_from_files.
PackFail(e) == [pk EXCEPT !.phase = "failed", !.err = e, !.tmpOpen = FALSE]

\* One turn of `for entry, fp in src`, up to the call of process_file for a File
\* that has bytes, to the end of the turn for every other entry.
PackEntry ==
    /\ pk.phase = "index" /\ pk.n < Len(pk.src)
    /\ LET entry == pk.src[pk.n + 1]
           parents == ParentNames(entry.fullpath)
           name == LeafName(entry.fullpath)
           container == Descend(pk.index.files, parents)
           put(info) == [files |-> PutAt(pk.index.files, parents, name, info)]
       IN IF ~container.ok THEN pk' = [PackFail("KeyError") EXCEPT !.cur = entry]
          ELSE IF HasKey(container.files, name)
          THEN pk' = [PackFail("FileExistsError") EXCEPT !.cur = entry]
          ELSE IF entry.type = "Folder"
          THEN pk' = [pk EXCEPT !.cur = entry, !.n = @ + 1, !.pf = NoPf,
                                !.index = put(FolderInfo(<<>>))]
          ELSE IF entry.type = "Symlink"
          THEN pk' = [pk EXCEPT !.cur = entry, !.n = @ + 1, !.pf = NoPf,
                                !.index = put(SymlinkInfo(entry.link))]
          ELSE IF entry.size <= 0
          THEN LET e == [entry EXCEPT !.integrity.blocks = Append(@, EMPTY_FILE_HASH)]
               IN pk' = [pk EXCEPT !.cur = e, !.n = @ + 1, !.pf = NoPf,
                                   !.index = put(FileRecord(e))]
          ELSE pk' = [pk EXCEPT !.cur = entry, !.phase = "file", !.pf = NoPf]
    /\ UNCHANGED <<readerVars, it, trip, pickle>>

\* One turn of `while sofar < entry.size` of process_file.
PackRead ==
    /\ pk.phase = "file" /\ pk.pf.sofar < pk.cur.size
    /\ LET e == pk.cur
           block_size == PfBlockSize(e.size, e.integrity.blockSize)
           read_size == PfReadSize(e.size, e.integrity.blockSize, pk.pf.sofar)
       IN \E n \in SourceReadLens(e.source, pk.pf.pos, read_size) :
            LET data == SubSeq(e.source.data, pk.pf.pos + 1, pk.pf.pos + n)
                buf == pk.pf.buf \o data
                full == Len(buf) = block_size
            IN IF data = <<>>
               THEN pk' = [PackFail("PrematureEOF") EXCEPT !.pf.reads = TRUE]
               ELSE pk' = [pk EXCEPT
                        !.tmpfile = @ \o data,
                        !.pf = [sofar |-> pk.pf.sofar + n, buf |-> buf,
                                global_hasher |-> pk.pf.global_hasher \o data,
                                block_hasher |-> IF full THEN <<>> ELSE pk.pf.block_hasher \o data,
                                pos |-> pk.pf.pos + n, reads |-> TRUE],
                        !.cur.integrity.blocks =
                            IF full THEN Append(@, Sha256(pk.pf.block_hasher \o data)) ELSE @]
    /\ UNCHANGED <<readerVars, it, trip, pickle>>

\* The end of process_file, and the rest of the turn of create_index.
PackFileDone ==
    /\ pk.phase = "file" /\ pk.pf.sofar >= pk.cur.size
    /\ LET e == [pk.cur EXCEPT !.offset = PyStr(DecStr(pk.offset)),
                               !.integrity.hash = Sha256(pk.pf.global_hasher)]
       IN pk' = [pk EXCEPT !.cur = e, !.phase = "index", !.n = @ + 1,
                           !.offset = @ + e.size,
                           !.index = [files |-> PutAt(pk.index.files, ParentNames(e.fullpath),
                                                      LeafName(e.fullpath), FileRecord(e))]]
    /\ UNCHANGED <<readerVars, it, trip, pickle>>

\* tmp.seek(0), then `while (data := tmp.read(2*12)) != b''`: the chunks of the
\* temporary file from a place on, in a row.
COPY_CHUNK == 2 * 12

RECURSIVE CopyFrom(_, _)
CopyFrom(tmp, pos) ==
    LET data == SubSeq(tmp, pos + 1, Min(pos + COPY_CHUNK, Len(tmp))) IN
    IF data = <<>> THEN <<>> ELSE data \o CopyFrom(tmp, pos + Len(data))

\* F of the value of e, which is worked out once however often F refers to it.
Bind(e, F(_)) == CHOOSE r \in {F(x) : x \in {e}} : TRUE

\* The text of the index as it is, in no Pickle.
HeaderBlockBare(index) == Utf8Encode(JsonDumps(index))

\* A prefix that tells the length of the text of the block's one field.
SizePrefixOfText(payload) ==
    PickleBytes(WriteFmt(NewPickle, FMT_UINT32, FromNat(Len(payload) - 2 * FMT_UINT32.size)))

\* bytes(payload_pickle): the Pickle whose one field is the text of the index.
HeaderBlock(index) ==
    Bind(JsonDumps(index), LAMBDA text : PickleBytes(WriteString(NewPickle, text)))

\* bytes(header_pickle): the Pickle whose one field is the length of the block.
SizePrefix(payload) == PickleBytes(WriteFmt(NewPickle, FMT_UINT32, FromNat(Len(payload))))

\* create_index has returned: the size prefix, the header block and the copy of
\* the temporary file are written to the destination, and the temporary file
\* is released.
PackFinalize ==
    /\ pk.phase = "index" /\ pk.n = Len(pk.src)
    /\ LET payload == HeaderBlock(pk.index)
       IN pk' = [pk EXCEPT !.phase = "done", !.tmpOpen = FALSE,
                           !.dest = SizePrefix(payload) \o payload \o CopyFrom(pk.tmpfile, 0)]
    /\ UNCHANGED <<readerVars, it, trip, pickle>>

-----------------------------------------------------------------------------
(* The package builder specification: create_package_from_files on a sequence *)
(* of entries                                                                  *)

\* The bytes a source of n bytes delivers.
Content(n) == [i \in 1..n |-> i % 2]

\* Integrity records an entry may arrive with: as handle_file builds them, or
\* with a digest and a block already set.
FreshIntegrity(bs) == Integrity(EMPTY_FILE_HASH, bs, <<>>)
StaleIntegrity(bs) == Integrity(Sha256(<<1>>), bs, <<Sha256(<<1>>)>>)

\* The File entries at a path: every size and block size, a source that delivers
\* the size (a regular file or a pipe) or one byte less.
PackFiles(fullpath) ==
    {FileEntry(fullpath, size, FALSE, integ, Source(Content(size - cut), pipe)) :
        size \in 0..MaxPackSize, cut \in {0, 1}, pipe \in BOOLEAN,
        integ \in UNION {{FreshIntegrity(bs), StaleIntegrity(bs)} : bs \in 1..MaxPackBlock}}

\* Small File entries that accompany the one under study.
SideFiles(fullpath) ==
    {FileEntry(fullpath, size, FALSE, FreshIntegrity(MaxPackBlock), Source(Content(size), FALSE)) :
        size \in {0, 2}}

\* The entry sequences of the specification: a file alone, in a folder, beside
\* other files, a symlink and a nested folder, without its folder, and where its
\* name is taken already: by a file, a folder or a symlink, at the root or in a
\* folder, and as the name a later folder or symlink asks for.
PackSources ==
    UNION {
        {<<f>>,
         <<FolderEntry(<<NameA>>), [f EXCEPT !.fullpath = <<NameA, NameB>>]>>,
         <<[f EXCEPT !.fullpath = <<NameA, NameB>>]>>}
        \cup {<<g, f>> : g \in SideFiles(<<NameA>>)}
        \cup {<<g, f, h>> : g \in SideFiles(<<NameA>>), h \in SideFiles(<<NameB, NameA>>)}
        \cup {<<f, g>> : g \in SideFiles(<<NameA>>)}
        \cup {<<f, SymlinkEntry(<<NameA>>, NameB), FolderEntry(<<NameSneaky>>),
               FolderEntry(<<NameSneaky, NameA>>), g>> :
                 g \in SideFiles(<<NameSneaky, NameA, NameB>>)}
        \cup {<<SymlinkEntry(<<NameA>>, NameB), [f EXCEPT !.fullpath = <<NameA, NameB>>]>>}
        \cup {<<g, f>> : g \in SideFiles(<<NameB>>)}
        \cup {<<FolderEntry(<<NameB>>), f>>,
              <<SymlinkEntry(<<NameB>>, NameA), f>>,
              <<f, FolderEntry(<<NameB>>)>>,
              <<f, SymlinkEntry(<<NameB>>, NameA)>>}
        \cup {<<FolderEntry(<<NameA>>), g, [f EXCEPT !.fullpath = <<NameA, NameB>>]>> :
                 g \in SideFiles(<<NameA, NameB>>)}
      : f \in PackFiles(<<NameB>>)}

InitPack ==
    /\ QuietReader
    /\ pk \in {NewPack(src) : src \in PackSources}
    /\ it = Parked /\ trip = Parked /\ pickle = Parked

NextPack ==
    \/ PackEntry
    \/ PackRead
    \/ PackFileDone
    \/ PackFinalize

SpecPack == InitPack /\ [][NextPack]_vars

-----------------------------------------------------------------------------
(* Claims about the package builder *)

\* The entry as it was handed in: pk.cur is the entry of the running or the last
\* turn of create_index.
CurInput == pk.src[IF pk.phase \in {"file", "failed"} THEN pk.n + 1 ELSE pk.n]

\* The record of the index at a path.
RecordAt(files, fullpath) == ValueOf(Descend(files, ParentNames(fullpath)).files, LeafName(fullpath))

\* C2: a File of size s > 0 and block size b whose source delivers s bytes is
\* packaged without error, with the ceil(s/b) digests of its blocks
\* [i*b, min((i+1)*b, s)) recorded in stream order.
C2_BlocksRecorded ==
    (/\ pk.n + (IF pk.phase \in {"file", "failed"} THEN 1 ELSE 0) > 0
     /\ pk.cur.type = "File" /\ pk.cur.size > 0
     /\ Len(CurInput.source.data) >= pk.cur.size
     /\ CurInput.integrity.blocks = <<>>)
    => /\ pk.err # "PrematureEOF"
       /\ (pk.phase \in {"index", "done"}) =>
            RecordAt(pk.index.files, pk.cur.fullpath).integrity.blocks
                = BlocksOf(SubSeq(CurInput.source.data, 1, pk.cur.size),
                           pk.cur.integrity.blockSize)

\* C5: the record of a zero-byte File has blocks = [empty digest] and hash = empty
\* digest whatever the entry carried, and packaging it reads nothing from its
\* source and appends nothing to the payload.
C5_EmptyFileRecord ==
    (/\ pk.n > 0 /\ pk.phase \in {"index", "done"}
     /\ pk.cur.type = "File" /\ pk.cur.size = 0)
    => LET r == RecordAt(pk.index.files, pk.cur.fullpath) IN
       /\ r.integrity.blocks = <<EMPTY_FILE_HASH>>
       /\ r.integrity.hash = EMPTY_FILE_HASH
       /\ ~pk.pf.reads
       /\ pk.pf.sofar = 0

-----------------------------------------------------------------------------
(* The codec machine: writes on a fresh Pickle, Pickle(bytes(pickle)), and *)
(* the mirrored reads                                                      *)

\* The values handed to the writers: 0, -1 and the ends of every width, one
\* value struct.pack refuses, strings of 1-, 2-, 3- and 4-byte sequences, byte
\* strings of aligned and unaligned lengths, two of which fill the first
\* PAYLOAD_UNIT bytes of capacity.
Int32Values ==
    {FromNat(0), Big(TRUE, <<1>>), Big(TRUE, <<0, 0, 0, 128>>),
     Big(FALSE, <<255, 255, 255, 127>>), Big(FALSE, <<0, 0, 0, 128>>)}
UInt32Values == {FromNat(0), Big(FALSE, <<255, 255, 255, 255>>)}
Int64Values ==
    {FromNat(0), Big(TRUE, <<1>>), Big(TRUE, <<0, 0, 0, 0, 0, 0, 0, 128>>),
     Big(FALSE, <<255, 255, 255, 255, 255, 255, 255, 127>>)}
UInt64Values == {FromNat(0), Big(FALSE, <<255, 255, 255, 255, 255, 255, 255, 255>>)}
LongString == <<97, 233, 8364>> \o [i \in 1..13 |-> 128512]
StringValues == {<<>>, <<233, 8364>>, <<128512>>, LongString}
LongBytes == [i \in 1..61 |-> (i * 37) % 256]
BytesValues == {<<>>, <<0, 32, 255>>, LongBytes}

Value(kind, val) == [kind |-> kind, val |-> val]

\* at: for the checks, the writeOffset each write started from.
NewCodec ==
    [phase |-> "write", w |-> NewPickle, written |-> <<>>, at |-> <<>>, r |-> NewPickle,
     itr |-> NewPickleIterator(NewPickle), got |-> <<>>, err |-> "none"]

\* One more write on the pickle, which leaves p2 behind.
Written(kind, val, p2) ==
    /\ pickle.phase = "write"
    /\ Len(pickle.written) < MaxWrites
    /\ pickle' = [pickle EXCEPT !.w = p2, !.written = Append(@, Value(kind, val)),
                                !.at = Append(@, pickle.w.writeOffset)]
    /\ UNCHANGED <<readerVars, it, pk, trip>>

\* struct.pack raised struct.error before the pickle was touched.
WriteRaised ==
    /\ pickle.phase = "write"
    /\ Len(pickle.written) < MaxWrites
    /\ pickle' = [pickle EXCEPT !.phase = "failed", !.err = "struct.error"]
    /\ UNCHANGED <<readerVars, it, pk, trip>>

WriteInt(fmt, kind, values) ==
    \E v \in values :
        IF PackRange(v, fmt.size, fmt.signed)
        THEN Written(kind, v, WriteFmt(pickle.w, fmt, v))
        ELSE WriteRaised

PickleWriteBool == \E b \in BOOLEAN : Written("bool", b, WriteBool(pickle.w, b))
PickleWriteInt == WriteInt(FMT_INT32, "int32", Int32Values)
PickleWriteUInt32 == WriteInt(FMT_UINT32, "uint32", UInt32Values)
PickleWriteInt64 == WriteInt(FMT_INT64, "int64", Int64Values)
PickleWriteUInt64 == WriteInt(FMT_UINT64, "uint64", UInt64Values)
PickleWriteString == \E str \in StringValues : Written("string", str, WriteString(pickle.w, str))
PickleWriteBytes == \E data \in BytesValues : Written("bytes", data, WriteBytes(pickle.w, data))

\* Pickle.create_from_buffer(bytes(pickle)).create_iterator()
PickleRebuild ==
    /\ pickle.phase = "write"
    /\ LET r == PickleFromBuffer(PickleBytes(pickle.w)) IN
       pickle' = [pickle EXCEPT !.phase = "read", !.r = r, !.itr = NewPickleIterator(r)]
    /\ UNCHANGED <<readerVars, it, pk, trip>>

\* The reader that mirrors the next written value has run, with outcome g.
ReadOf(kind, g) ==
    /\ pickle.phase = "read"
    /\ pickle.err = "none"
    /\ Len(pickle.got) < Len(pickle.written)
    /\ pickle.written[Len(pickle.got) + 1].kind = kind
    /\ pickle' = [pickle EXCEPT !.itr = g.itr, !.err = g.err,
                                !.got = IF g.err = "none" THEN Append(@, Value(kind, g.val))
                                        ELSE @]
    /\ UNCHANGED <<readerVars, it, pk, trip>>

PickleReadBool == ReadOf("bool", ReadBool(pickle.itr))
PickleReadInt == ReadOf("int32", ReadFmt(pickle.itr, FMT_INT32))
PickleReadUInt32 == ReadOf("uint32", ReadFmt(pickle.itr, FMT_UINT32))
PickleReadInt64 == ReadOf("int64", ReadFmt(pickle.itr, FMT_INT64))
PickleReadUInt64 == ReadOf("uint64", ReadFmt(pickle.itr, FMT_UINT64))
PickleReadString == ReadOf("string", ReadString(pickle.itr))
PickleReadBytes ==
    /\ pickle.phase = "read"
    /\ Len(pickle.got) < Len(pickle.written)
    /\ ReadOf("bytes", ReadBytes(pickle.itr, Len(pickle.written[Len(pickle.got) + 1].val)))

InitPickle ==
    /\ QuietReader
    /\ pickle = NewCodec
    /\ it = Parked /\ pk = Parked /\ trip = Parked

NextPickle ==
    \/ PickleWriteBool
    \/ PickleWriteInt
    \/ PickleWriteUInt32
    \/ PickleWriteInt64
    \/ PickleWriteUInt64
    \/ PickleWriteString
    \/ PickleWriteBytes
    \/ PickleRebuild
    \/ PickleReadBool
    \/ PickleReadInt
    \/ PickleReadUInt32
    \/ PickleReadInt64
    \/ PickleReadUInt64
    \/ PickleReadString
    \/ PickleReadBytes

SpecPickle == InitPickle /\ [][NextPickle]_vars

-----------------------------------------------------------------------------
(* Claims about the codec *)

\* C10: whatever sequence of bool, int32, uint32, int64, uint64, string and
\* bytes values was written on a fresh Pickle, the mirrored readers run in the
\* same order on Pickle(bytes(pickle)) raise nothing and return the written
\* values, one for one.
C10_CodecRoundTrip ==
    pickle.phase = "read" =>
        /\ pickle.err = "none"
        /\ \A i \in 1..Len(pickle.got) :
               /\ pickle.got[i].kind = pickle.written[i].kind
               /\ pickle.got[i].val = pickle.written[i].val

\* Every written value was read back, among them a string of multi-byte
\* sequences and the least int64, from a pickle that had to be resized.
C10_Witness ==
    /\ pickle.phase = "read"
    /\ pickle.got = pickle.written
    /\ pickle.w.capacityAfterHeader > PAYLOAD_UNIT
    /\ \E i \in 1..Len(pickle.got) :
           pickle.got[i].kind = "string" /\ pickle.got[i].val = LongString
    /\ \E i \in 1..Len(pickle.got) :
           /\ pickle.got[i].kind = "int64"
           /\ pickle.got[i].val = Big(TRUE, <<0, 0, 0, 0, 0, 0, 0, 128>>)

-----------------------------------------------------------------------------
(* The directory tree create_package walks: a directory is the set of its  *)
(* nodes                                                                   *)

TreeFile(name, data, executable) ==
    [name |-> name, type |-> "File", data |-> data, executable |-> executable,
     link |-> <<>>, todir |-> FALSE, children |-> {}]

TreeFolder(name, children) ==
    [name |-> name, type |-> "Folder", data |-> <<>>, executable |-> FALSE,
     link |-> <<>>, todir |-> FALSE, children |-> children]

\* A symlink; todir: its target is a directory (os.fwalk then lists it among
\* the directory names, and does not descend into it).
TreeSymlink(name, link, todir) ==
    [name |-> name, type |-> "Symlink", data |-> <<>>, executable |-> FALSE,
     link |-> link, todir |-> todir, children |-> {}]

\* The order of str: by code point, character by character.
CodePoints == <<".", "/", "a", "b", "d", "e", "k", "n", "s", "y">>
Ord(c) == CHOOSE i \in 1..Len(CodePoints) : CodePoints[i] = c

RECURSIVE NameLess(_, _)
NameLess(a, b) ==
    IF b = <<>> THEN FALSE
    ELSE IF a = <<>> THEN TRUE
    ELSE IF a[1] = b[1] THEN NameLess(Tail(a), Tail(b))
    ELSE Ord(a[1]) < Ord(b[1])

\* dirnames.sort() / filenames.sort(): the nodes of a set in the order of their names.
RECURSIVE SortNodes(_)
SortNodes(nodes) ==
    IF nodes = {} THEN <<>>
    ELSE LET m == CHOOSE n \in nodes : \A o \in nodes \ {n} : NameLess(n.name, o.name)
         IN <<m>> \o SortNodes(nodes \ {m})

\* name.startswith('.')
Hidden(name) == name # <<>> /\ name[1] = "."

\* What os.fwalk lists among the directory names.
IsDirName(n) == n.type = "Folder" \/ (n.type = "Symlink" /\ n.todir)

\* handle_file: the (File, fp) or (Symlink, None) pair of a name that is no directory.
HandleFile(n, path, block_size) ==
    IF n.type = "Symlink" THEN SymlinkEntry(path, n.link)
    ELSE FileEntry(path, Len(n.data), n.executable, Integrity(EMPTY_FILE_HASH, block_size, <<>>),
                   Source(n.data, FALSE))

\* handle_folder
HandleFolder(n, path) ==
    IF n.type = "Symlink" THEN SymlinkEntry(path, n.link) ELSE FolderEntry(path)

\* walk_dir: for every directory os.fwalk visits, top-down, the pairs of its
\* sorted file names, then of its sorted directory names; os.fwalk then visits
\* the directories in that order, the hidden ones too.
RECURSIVE WalkDir(_, _, _, _)
RECURSIVE WalkInto(_, _, _, _)
WalkDir(nodes, dirpath, exclude_hidden, block_size) ==
    LET filenames == SortNodes({n \in nodes : ~IsDirName(n)})
        dirnames == SortNodes({n \in nodes : IsDirName(n)})
        kept(names) == SelectSeq(names, LAMBDA n : ~(exclude_hidden /\ Hidden(n.name)))
        files == kept(filenames)
        dirs == kept(dirnames)
    IN [i \in 1..Len(files) |-> HandleFile(files[i], dirpath \o <<files[i].name>>, block_size)]
         \o [i \in 1..Len(dirs) |-> HandleFolder(dirs[i], dirpath \o <<dirs[i].name>>)]
         \o WalkInto(dirnames, dirpath, exclude_hidden, block_size)

WalkInto(dirnames, dirpath, exclude_hidden, block_size) ==
    IF dirnames = <<>> THEN <<>>
    ELSE LET d == Head(dirnames) IN
         (IF d.type = "Folder"
          THEN WalkDir(d.children, dirpath \o <<d.name>>, exclude_hidden, block_size)
          ELSE <<>>)
           \o WalkInto(Tail(dirnames), dirpath, exclude_hidden, block_size)

-----------------------------------------------------------------------------
(* extract_all on the archive create_package wrote *)

\* A node of the destination directory. A file is the one fullpath.open('wb')
\* created: its mode has no execute bit, and nothing in extract_all changes the
\* mode afterwards.
DestFile(path, data) ==
    [path |-> path, type |-> "File", data |-> data, link |-> <<>>, executable |-> FALSE]
DestFolder(path) ==
    [path |-> path, type |-> "Folder", data |-> <<>>, link |-> <<>>, executable |-> FALSE]
DestSymlink(path, link) ==
    [path |-> path, type |-> "Symlink", data |-> <<>>, link |-> link, executable |-> FALSE]

NoOpen == [is |-> FALSE, path |-> <<>>]

NewTrip(tree, exclude_hidden) ==
    [tree |-> tree, exclude_hidden |-> exclude_hidden, stage |-> "pack",
     dest |-> {}, open |-> NoOpen, err |-> "none"]

\* The destination directory with the file that is being written.
DestNodes ==
    trip.dest \cup (IF trip.open.is THEN {DestFile(trip.open.path, out)} ELSE {})

ExistsAt(nodes, path) == \E n \in nodes : n.path = path

\* The directory a path is created in exists.
ParentExists(nodes, path) ==
    Len(path) <= 1
      \/ \E n \in nodes : n.path = SubSeq(path, 1, Len(path) - 1) /\ n.type = "Folder"

\* Pickle(buf).create_iterator(): both unpack the payload size, which raises
\* struct.error on fewer than 4 bytes.
CreateIterator(buf) ==
    IF Len(buf) < FMT_UINT32.size \/ Len(PickleFromBuffer(buf).header) < FMT_UINT32.size
    THEN [err |-> "struct.error", itr |-> NewPickleIterator(NewPickle)]
    ELSE [err |-> "none", itr |-> NewPickleIterator(PickleFromBuffer(buf))]

\* Filesystem.__init__ on the bytes of an archive: fp.read(8), the uint32 of
\* that Pickle, fp.read(size), the string of that Pickle, json.loads and the
\* assertion on its value; read counts the bytes the two reads took.
FilesystemInit(archive) ==
    LET prefix == SubSeq(archive, 1, Min(8, Len(archive)))
        sizePickle == CreateIterator(prefix)
        failed(e) == [err |-> e, size |-> 0, read |-> 0, header |-> [files |-> <<>>]]
        loaded(n, block, value) ==
            IF ~value.ok THEN failed("JSONDecodeError")
            ELSE IF ~JHas(value.val, KeyFiles) THEN failed("AssertionError")
            ELSE [err |-> "none", size |-> n, read |-> Len(prefix) + Len(block),
                  header |-> HeaderOf(value.val)]
        header(n, block) ==
            Bind(CreateIterator(block), LAMBDA headerPickle :
                IF headerPickle.err # "none" THEN failed(headerPickle.err)
                ELSE Bind(ReadString(headerPickle.itr), LAMBDA text :
                         IF text.err # "none" THEN failed(text.err)
                         ELSE Bind(JsonLoads(text.val), LAMBDA value : loaded(n, block, value))))
    IN IF sizePickle.err # "none" THEN failed(sizePickle.err)
       ELSE Bind(ReadFmt(sizePickle.itr, FMT_UINT32), LAMBDA size :
                IF size.err # "none" THEN failed(size.err)
                ELSE Bind(SubSeq(archive, Len(prefix) + 1,
                                 Min(Len(prefix) + ToInt(size.val), Len(archive))),
                          LAMBDA block : header(ToInt(size.val), block)))

\* open_archive, Filesystem(fp) and the creation of dest: the header is parsed,
\* the payload origin is set and the stream is where the two reads left it.
TripOpen ==
    /\ trip.stage = "pack" /\ pk.phase = "done"
    /\ \E seekable \in BOOLEAN : fpSeekable' = seekable
    /\ \E fs \in {FilesystemInit(pk.dest)} :
       IF fs.err # "none"
       THEN /\ trip' = [trip EXCEPT !.stage = "failed", !.err = fs.err]
            /\ UNCHANGED <<fpData, fpPos, headerSize, position, it>>
       ELSE /\ fpData' = SubSeq(pk.dest, 8 + fs.size + 1, Len(pk.dest))
            /\ fpPos' = fs.read
            /\ headerSize' = 8 + fs.size
            /\ position' = 8 + fs.size
            /\ it' = NewIter(fs.header)
            /\ trip' = [trip EXCEPT !.stage = "extract"]
    /\ UNCHANGED <<pc, op, res, rd, ex, out, mark, pk, pickle>>

\* One turn of `for entry in fs`: next(fs), then the mkdir, the symlink_to, or
\* open('wb') and the call of entry.extract, which the reader carries on with;
\* the file of the turn before was closed when its turn ended.
TripEntry ==
    /\ trip.stage = "extract" /\ pc = "idle" /\ res \in {"none", "ok"}
    /\ LET g == IterAdvance(it)
           dest == DestNodes
           node == g.yielded[Len(g.yielded)]
           path == node.fullpath.parts
           closed(nodes) == [trip EXCEPT !.dest = nodes, !.open = NoOpen]
           raised(e) == [closed(dest) EXCEPT !.stage = "failed", !.err = e]
       IN /\ it' = g
          /\ IF g.done
             THEN trip' = [closed(dest) EXCEPT !.stage = "done"] /\ UNCHANGED readerVars
             ELSE IF g.err # "none"
             THEN trip' = raised(g.err) /\ UNCHANGED readerVars
             ELSE IF node.type = "Folder"
             THEN /\ trip' = IF ~ParentExists(dest, path) THEN raised("FileNotFoundError")
                             ELSE IF ExistsAt(dest, path) /\ DestFolder(path) \notin dest
                             THEN raised("FileExistsError")
                             ELSE closed(dest \cup {DestFolder(path)})
                  /\ UNCHANGED readerVars
             ELSE IF node.type = "Symlink"
             THEN /\ trip' = IF ~ParentExists(dest, path) THEN raised("FileNotFoundError")
                             ELSE IF ExistsAt(dest, path) THEN raised("FileExistsError")
                             ELSE closed(dest \cup {DestSymlink(path, node.info.link)})
                  /\ UNCHANGED readerVars
             ELSE IF ~ParentExists(dest, path)
             THEN trip' = raised("FileNotFoundError") /\ UNCHANGED readerVars
             ELSE IF \E n \in dest : n.path = path /\ n.type = "Folder"
             THEN trip' = raised("IsADirectoryError") /\ UNCHANGED readerVars
             ELSE /\ trip' = [trip EXCEPT !.dest = {n \in dest : n.path # path},
                                          !.open = [is |-> TRUE, path |-> path]]
                  /\ ExtractCore(File(node.info.size, OffsetInt(node.info.offset),
                                      node.info.executable, node.info.integrity), <<>>)
    /\ UNCHANGED <<pk, pickle>>

-----------------------------------------------------------------------------
(* The round-trip specification: create_package on a directory tree, then  *)
(* extract_all on the archive                                              *)

NameD == <<"d">>

\* File contents: none, some bytes, and as many as a block of walk_dir.
TreeContents == {<<>>, <<1>>, <<0, 1>>, Content(WalkBlockSize)}

\* Trees of files, nested folders and symlinks, with and without hidden names.
TreeShapes(c1, c2) ==
    { {TreeFile(NameB, c1, FALSE), TreeFile(NameA, c2, TRUE)},
      {TreeFolder(NameD, {TreeFile(NameA, c1, FALSE)}), TreeFile(NameB, c2, FALSE)},
      {TreeFolder(NameB, {TreeFile(NameA, c1, TRUE)}), TreeFolder(NameA, {TreeFile(NameB, c2, FALSE)})},
      {TreeFolder(NameA, {TreeFolder(NameB, {TreeFile(NameA, c1, FALSE)}),
                          TreeFile(NameD, c2, FALSE)})},
      {TreeSymlink(NameA, NameB, FALSE), TreeFile(NameB, c1, FALSE),
       TreeFolder(NameD, {TreeSymlink(NameB, NameA, FALSE), TreeFile(NameA, c2, FALSE)})},
      {TreeFolder(NameA, {}), TreeSymlink(NameB, NameA, TRUE), TreeFile(NameD, c1, FALSE),
       TreeFile(NameSneaky, c2, FALSE)},
      {TreeFolder(NameSneaky, {TreeFile(NameA, c1, FALSE)}), TreeFile(NameB, c2, FALSE)} }

Trees == UNION {TreeShapes(c1, c2) : c1, c2 \in TreeContents}

\* create_package(base_dir, dest, exclude_hidden) has called
\* create_package_from_files on the generator of walk_dir.
InitTrip ==
    /\ QuietReader
    /\ \E tree \in Trees, exclude_hidden \in BOOLEAN :
         /\ trip = NewTrip(tree, exclude_hidden)
         /\ pk = NewPack(WalkDir(tree, <<>>, exclude_hidden, WalkBlockSize))
    /\ it = Parked /\ pickle = Parked

NextTrip ==
    \/ PackEntry
    \/ PackRead
    \/ PackFileDone
    \/ PackFinalize
    \/ TripOpen
    \/ TripEntry
    \/ ReadYieldEmpty
    \/ ReadChunk
    \/ ReadReturn
    \/ ExtractBody
    \/ ExtractLoop
    \/ ExtractCheck

SpecTrip == InitTrip /\ [][NextTrip]_vars

-----------------------------------------------------------------------------
(* Claims about the round trip *)

\* The nodes of a tree, by path.
RECURSIVE TreeNodes(_, _)
TreeNodes(nodes, dirpath) ==
    UNION {{[path |-> dirpath \o <<n.name>>, type |-> n.type, data |-> n.data, link |-> n.link]}
             \cup TreeNodes(n.children, dirpath \o <<n.name>>) : n \in nodes}

\* The paths, types, contents and link targets of the nodes of a destination.
Shape(nodes) ==
    {[path |-> n.path, type |-> n.type, data |-> n.data, link |-> n.link] : n \in nodes}

\* create_package was asked for the whole tree.
WholeTree ==
    ~trip.exclude_hidden \/ \A n \in TreeNodes(trip.tree, <<>>) : ~Hidden(n.path[Len(n.path)])

\* C1: for every tree of regular files (empty ones included, wherever they sort
\* among their siblings), nested folders and symlinks, create_package and then
\* extract_all raise nothing, and when extract_all has returned the destination
\* holds the nodes of the tree: the same paths, file contents and link targets.
C1_RoundTrip ==
    WholeTree =>
        /\ pk.phase # "failed"
        /\ trip.err = "none"
        /\ trip.stage # "pack" => res \in {"none", "ok"} /\ it.err = "none"
        /\ trip.stage = "done" => Shape(DestNodes) = TreeNodes(trip.tree, <<>>)

\* A round trip that went through: a tree with a folder and content to extract.
C1_TripDone ==
    /\ trip.stage = "done"
    /\ Shape(DestNodes) = TreeNodes(trip.tree, <<>>)
    /\ \E n \in DestNodes : n.type = "File" /\ Len(n.path) = 2 /\ n.data # <<>>

\* The empty file that follows a file with content: extract_all has stopped on
\* the rewind error of its seek.
C1_EmptyAfterContent ==
    /\ trip.stage = "extract" /\ pc = "idle" /\ res = "RewindError"
    /\ op.name = "extract" /\ ex.file.size = 0

-----------------------------------------------------------------------------
(* Claims about the layout of a written Pickle *)

\* The bytes a written value hands to write_bytes as a byte string or encoded
\* text (none for the fixed-width values).
TextOf(v) ==
    IF v.kind = "string" THEN Utf8Encode(v.val) ELSE IF v.kind = "bytes" THEN v.val ELSE <<>>

\* The length of the field of a written value, before rounding: a string is its
\* int32 length and its text.
WidthOf(v) ==
    CASE v.kind \in {"bool", "int32", "uint32"} -> 4
      [] v.kind \in {"int64", "uint64"} -> 8
      [] v.kind = "string" -> 4 + Len(TextOf(v))
      [] OTHER -> Len(TextOf(v))

\* Where, in bytes(pickle), the text of the i-th written value starts (0-based).
TextStart(i) ==
    pickle.w.headerSize + pickle.at[i] + (IF pickle.written[i].kind = "string" THEN 4 ELSE 0)

\* The positions (1-based) of bytes(pickle) between the end of the text of the
\* i-th written value and the next multiple of 4.
PaddingOf(i) ==
    LET end == TextStart(i) + Len(TextOf(pickle.written[i])) IN
    (end + 1)..(end + ((4 - (end % 4)) % 4))

\* C11: in bytes(pickle), every byte between the end of a written byte string or
\* encoded text and the next multiple of 4 is 0x00.
C11_PaddingIsZero ==
    \A i \in 1..Len(pickle.written) :
        pickle.written[i].kind \in {"string", "bytes"} =>
            \A j \in PaddingOf(i) :
                j <= Len(PickleBytes(pickle.w)) /\ PickleBytes(pickle.w)[j] = 0

\* Padding inside the first PAYLOAD_UNIT bytes is zero: a short byte string was
\* written and is followed by three bytes of 0x00.
C11_ZeroInsideCapacity ==
    /\ Len(pickle.written) = 1 /\ pickle.written[1].kind = "bytes"
    /\ Len(pickle.written[1].val) = 3
    /\ \A j \in PaddingOf(1) : PickleBytes(pickle.w)[j] = 0

\* The sum of the field lengths of the first n written values, each rounded up
\* to a multiple of 4.
RECURSIVE RoundedSum(_)
RoundedSum(n) ==
    IF n = 0 THEN 0
    ELSE RoundedSum(n - 1) + 4 * ((WidthOf(pickle.written[n]) + 3) \div 4)

\* C20: after every write on a fresh Pickle the payload-size prefix equals
\* writeOffset and the sum of the rounded field lengths; every field starts at a
\* multiple of 4, and bytes(pickle) is 4 + payload size bytes, a multiple of 4.
C20_PrefixAndAlignment ==
    /\ GetPayloadSize(pickle.w.header) = pickle.w.writeOffset
    /\ pickle.w.writeOffset = RoundedSum(Len(pickle.written))
    /\ \A i \in 1..Len(pickle.written) :
           /\ pickle.at[i] = RoundedSum(i - 1)
           /\ (pickle.w.headerSize + pickle.at[i]) % 4 = 0
    /\ Len(PickleBytes(pickle.w)) = 4 + GetPayloadSize(pickle.w.header)
    /\ Len(PickleBytes(pickle.w)) % 4 = 0

\* Two writes, the first of a length that is no multiple of 4, the second past
\* the first PAYLOAD_UNIT bytes of capacity.
C20_Witness ==
    /\ Len(pickle.written) = 2
    /\ WidthOf(pickle.written[1]) % 4 # 0
    /\ pickle.at[2] > 0 /\ pickle.at[2] % 4 = 0
    /\ pickle.w.capacityAfterHeader > PAYLOAD_UNIT
    /\ GetPayloadSize(pickle.w.header) = pickle.w.writeOffset

-----------------------------------------------------------------------------
(* The buffer machine: Pickle(buf) on a given buffer, create_iterator, and  *)
(* any reads                                                               *)

\* The 4-byte words the buffers are made of.
BufferWords == {<<0, 0, 0, 0>>, <<4, 0, 0, 0>>, <<97, 97, 97, 97>>, <<255, 255, 255, 255>>}

\* The payload sizes the buffers declare.
DeclaredSizes == {0, 3, 4, 8, 12, 16, 20}

\* Buffers of a size word and up to three words, with what they declare below,
\* at and above their length; buffers too short to hold a size; a buffer whose
\* length is no multiple of 4.
Buffers ==
    {<<>>, <<1>>, <<2, 0, 0, 0, 97, 97>>}
      \cup {<<n, 0, 0, 0>> : n \in DeclaredSizes}
      \cup {<<n, 0, 0, 0>> \o a : n \in DeclaredSizes, a \in BufferWords}
      \cup {<<n, 0, 0, 0>> \o a \o b : n \in DeclaredSizes, a, b \in BufferWords}
      \cup {<<n, 0, 0, 0>> \o a \o b \o c : n \in DeclaredSizes, a, b, c \in BufferWords}

NoLast == [kind |-> "none", over |-> FALSE, pinned |-> FALSE, err |-> "none"]

\* last and pinned are bookkeeping for the checks: the kind of the last read,
\* whether it asked for more than was left, whether a read before it had, and
\* how it ended.
NewBuffer(buf) ==
    [phase |-> "buffer", buf |-> buf, r |-> NewPickle, itr |-> NewPickleIterator(NewPickle),
     last |-> NoLast, pinned |-> FALSE, err |-> "none"]

\* Pickle(buf)
BufferOpen ==
    /\ pickle.phase = "buffer"
    /\ pickle' = IF Len(pickle.buf) < FMT_UINT32.size
                 THEN [pickle EXCEPT !.phase = "failed", !.err = "struct.error"]
                 ELSE [pickle EXCEPT !.phase = "pickle", !.r = PickleFromBuffer(pickle.buf)]
    /\ UNCHANGED <<readerVars, it, pk, trip>>

\* pickle.create_iterator(): PickleIterator.__init__ reads the payload size.
BufferIterator ==
    /\ pickle.phase = "pickle"
    /\ pickle' = IF Len(pickle.r.header) < FMT_UINT32.size
                 THEN [pickle EXCEPT !.phase = "failed", !.err = "struct.error"]
                 ELSE [pickle EXCEPT !.phase = "read", !.itr = NewPickleIterator(pickle.r)]
    /\ UNCHANGED <<readerVars, it, pk, trip>>

\* A read of some kind has run, with outcome g; over: one of its read_bytes asked
\* for more than the declared payload had left.
BufferRead(kind, g, over) ==
    /\ pickle.phase = "read"
    /\ pickle' = [pickle EXCEPT
                     !.itr = g.itr,
                     !.last = [kind |-> kind, over |-> over, pinned |-> pickle.pinned,
                               err |-> g.err],
                     !.pinned = @ \/ over]
    /\ UNCHANGED <<readerVars, it, pk, trip>>

\* The declared payload left to the iterator.
Remaining(itr) == itr.endIndex - itr.readIndex

BufferReadBool == BufferRead("bool", ReadBool(pickle.itr), FMT_INT32.size > Remaining(pickle.itr))
BufferReadInt ==
    BufferRead("int32", ReadFmt(pickle.itr, FMT_INT32), FMT_INT32.size > Remaining(pickle.itr))
BufferReadUInt32 ==
    BufferRead("uint32", ReadFmt(pickle.itr, FMT_UINT32), FMT_UINT32.size > Remaining(pickle.itr))
BufferReadInt64 ==
    BufferRead("int64", ReadFmt(pickle.itr, FMT_INT64), FMT_INT64.size > Remaining(pickle.itr))
BufferReadUInt64 ==
    BufferRead("uint64", ReadFmt(pickle.itr, FMT_UINT64), FMT_UINT64.size > Remaining(pickle.itr))
BufferReadFloat ==
    BufferRead("float", ReadFloat(pickle.itr, FMT_FLOAT), FMT_FLOAT.size > Remaining(pickle.itr))
BufferReadDouble ==
    BufferRead("double", ReadFloat(pickle.itr, FMT_DOUBLE), FMT_DOUBLE.size > Remaining(pickle.itr))
BufferReadString ==
    LET size == ReadFmt(pickle.itr, FMT_INT32) IN
    BufferRead("string", ReadString(pickle.itr),
               \/ FMT_INT32.size > Remaining(pickle.itr)
               \/ /\ size.err = "none" /\ ~size.val.neg
                  /\ ToInt(size.val) > Remaining(size.itr))
BufferReadBytes ==
    \E length \in 0..MaxReadLength :
        BufferRead("bytes", ReadBytes(pickle.itr, length), length > Remaining(pickle.itr))

InitBuffer ==
    /\ QuietReader
    /\ pickle \in {NewBuffer(buf) : buf \in Buffers}
    /\ it = Parked /\ pk = Parked /\ trip = Parked

NextBuffer ==
    \/ BufferOpen
    \/ BufferIterator
    \/ BufferReadBool
    \/ BufferReadInt
    \/ BufferReadUInt32
    \/ BufferReadInt64
    \/ BufferReadUInt64
    \/ BufferReadFloat
    \/ BufferReadDouble
    \/ BufferReadString
    \/ BufferReadBytes

SpecBuffer == InitBuffer /\ [][NextBuffer]_vars

-----------------------------------------------------------------------------
(* Claims about Pickle(buf) and the reads of a PickleIterator *)

\* len(buf) minus the little-endian uint32 in buf[0..4).
DerivedHeaderSize == Len(pickle.buf) - ToInt(Unpack(SubSeq(pickle.buf, 1, 4), FALSE))

\* C12: Pickle(buf) sets headerSize to len(buf) minus the uint32 in buf[0..4),
\* and falls back to headerSize 0 with an empty buffer whenever that value is
\* negative, exceeds len(buf) or is no multiple of 4.
C12_DerivedHeaderSize ==
    pickle.phase \in {"pickle", "read"} =>
        IF DerivedHeaderSize < 0 \/ DerivedHeaderSize > Len(pickle.buf)
             \/ DerivedHeaderSize % 4 # 0
        THEN pickle.r.headerSize = 0 /\ pickle.r.header = <<>>
        ELSE pickle.r.headerSize = DerivedHeaderSize

\* A derived header size that is no multiple of 4 has been rejected.
C12_UnalignedRejected ==
    /\ pickle.phase = "pickle" /\ DerivedHeaderSize > 0 /\ DerivedHeaderSize % 4 # 0
    /\ pickle.r.headerSize = 0 /\ pickle.r.header = <<>>

\* C13: a read that asks for more than the declared payload has left fails with
\* the truncated-data error and leaves readIndex at endIndex; every read_<T>
\* after it fails as well; and 0 <= readIndex <= endIndex throughout.
C13_TruncatedReadPins ==
    pickle.phase = "read" =>
        /\ 0 <= pickle.itr.readIndex /\ pickle.itr.readIndex <= pickle.itr.endIndex
        /\ pickle.last.over =>
              pickle.last.err = "RuntimeError" /\ pickle.itr.readIndex = pickle.itr.endIndex
        /\ (pickle.last.pinned /\ pickle.last.kind \notin {"none", "bytes"}) =>
              pickle.last.err # "none"

\* A read ran past the declared payload of a well-formed buffer, and a
\* read_int64 after it failed.
C13_Witness ==
    /\ pickle.phase = "read" /\ pickle.itr.readIndex = pickle.itr.endIndex
    /\ pickle.itr.endIndex >= 8 /\ pickle.itr.payloadOffset = 4
    /\ pickle.last.pinned /\ pickle.last.kind = "int64" /\ pickle.last.err = "RuntimeError"

-----------------------------------------------------------------------------
(* Claims about the order of the traversal *)

\* An index whose names are plain: no separator, not empty, not "." or "..".
WellFormedIndex ==
    \A n \in AllNames(it.header.files) : ~SepIn(n) /\ n \notin {<<>>, CURDIR, PARDIR}

\* The entries of a mapping in depth-first pre-order, as (type, fullpath) pairs: each
\* item in the order of the mapping, a folder followed by its own entries.
RECURSIVE Preorder(_, _)
Preorder(files, parts) ==
    IF files = <<>> THEN <<>>
    ELSE LET item == Head(files)
             here == parts \o <<item.k>>
             isLink == "link" \in DOMAIN item.v
             isFolder == ~isLink /\ "files" \in DOMAIN item.v
         IN <<[type |-> IF isLink THEN "Symlink" ELSE IF isFolder THEN "Folder" ELSE "File",
               fullpath |-> [root |-> FALSE, parts |-> here]]>>
              \o (IF isFolder THEN Preorder(item.v.files, here) ELSE <<>>)
              \o Preorder(Tail(files), parts)

YieldedPairs ==
    [i \in 1..Len(it.yielded) |->
        [type |-> it.yielded[i].type, fullpath |-> it.yielded[i].fullpath]]

IsPrefix(a, b) == Len(a) <= Len(b) /\ a = SubSeq(b, 1, Len(a))

\* C14: the traversal of a well-formed index yields its entries in depth-first
\* pre-order, each exactly once (what it has yielded is always the start of the
\* pre-order listing, raising nothing), and it ends having yielded them all.
C14_DepthFirstPreorder ==
    /\ [](WellFormedIndex =>
            /\ it.err = "none"
            /\ IsPrefix(YieldedPairs, Preorder(it.header.files, <<>>))
            /\ it.done => YieldedPairs = Preorder(it.header.files, <<>>))
    /\ (WellFormedIndex /\ ~it.done) ~>
            (it.done /\ YieldedPairs = Preorder(it.header.files, <<>>))

\* A finished traversal of a folder, its child, and the folder's next sibling.
C14_Witness ==
    /\ WellFormedIndex /\ it.done /\ Len(it.yielded) = 3
    /\ YieldedPairs = Preorder(it.header.files, <<>>)
    /\ it.yielded[1].type = "Folder"
    /\ it.yielded[2].parent = it.yielded[1].fullpath
    /\ it.yielded[3].parent = DotPath

-----------------------------------------------------------------------------
(* Claims about names that are taken *)

\* The entry of the next turn of create_index has a leaf name that its parent
\* directory's mapping holds already.
LeafTaken ==
    /\ pk.phase = "index" /\ pk.n < Len(pk.src)
    /\ LET entry == pk.src[pk.n + 1]
           container == Descend(pk.index.files, ParentNames(entry.fullpath))
       IN container.ok /\ HasKey(container.files, LeafName(entry.fullpath))

\* C17: an entry whose leaf name its parent directory's mapping already holds
\* makes create_index fail with the already-exists error, with nothing read from
\* the entry's source, nothing appended to the payload and the index and the
\* running offset as they were; the names in every mapping of the index are
\* distinct throughout.
C17_TakenNameFails ==
    /\ [](UniqueKeys(pk.index.files))
    /\ [][LeafTaken =>
            /\ pk'.phase = "failed" /\ pk'.err = "FileExistsError"
            /\ pk'.index = pk.index /\ pk'.offset = pk.offset
            /\ pk'.tmpfile = pk.tmpfile /\ pk'.pf = pk.pf /\ pk'.n = pk.n]_vars

\* A file with content was refused for its name, after another file's bytes had
\* gone to the payload.
C17_Witness ==
    /\ pk.err = "FileExistsError" /\ pk.phase = "failed"
    /\ pk.cur.type = "File" /\ pk.cur.size > 0 /\ pk.cur.source.data # <<>>
    /\ pk.n >= 1 /\ pk.tmpfile # <<>> /\ Len(pk.tmpfile) = pk.offset
    /\ pk.index.files # <<>>

-----------------------------------------------------------------------------
(* Claims about the running offset *)

\* The sum of the sizes of the File entries among the first n of a sequence.
RECURSIVE SizesUpTo(_, _)
SizesUpTo(src, n) ==
    IF n = 0 THEN 0
    ELSE SizesUpTo(src, n - 1) + (IF src[n].type = "File" THEN src[n].size ELSE 0)

\* C15: the record of every File that create_index has inserted, a zero-length
\* file included, has as offset the decimal string of the number of payload
\* bytes appended before the file, and once the file is packaged the running
\* offset and the length of the payload both equal the sum of the sizes of the
\* files packaged so far.
C15_OffsetIsRunningSum ==
    (pk.phase = "index" /\ pk.n > 0 /\ pk.cur.type = "File") =>
        LET record == RecordAt(pk.index.files, pk.cur.fullpath)
            before == SizesUpTo(pk.src, pk.n - 1)
        IN /\ record.offset.type = "str"
           /\ record.offset.val = DecStr(before)
           /\ pk.offset = SizesUpTo(pk.src, pk.n)
           /\ Len(pk.tmpfile) = pk.offset

\* The same for the files that have bytes: the part of the statement the code
\* keeps.
C15_NonEmptyOffsets ==
    (pk.phase = "index" /\ pk.n > 0 /\ pk.cur.type = "File" /\ pk.cur.size > 0) =>
        LET record == RecordAt(pk.index.files, pk.cur.fullpath)
        IN /\ record.offset = PyStr(DecStr(SizesUpTo(pk.src, pk.n - 1)))
           /\ pk.offset = SizesUpTo(pk.src, pk.n)
           /\ Len(pk.tmpfile) = pk.offset

-----------------------------------------------------------------------------
(* Claims about the executable flag *)

\* The regular files of a tree, by path, with their executable flag.
RECURSIVE TreeFlags(_, _)
TreeFlags(nodes, dirpath) ==
    UNION {(IF n.type = "File"
            THEN {[path |-> dirpath \o <<n.name>>, executable |-> n.executable]}
            ELSE {})
             \cup TreeFlags(n.children, dirpath \o <<n.name>>) : n \in nodes}

\* The flag traversal of the archive lists for every File is the flag of the
\* source file.
ListedFlags ==
    trip.stage \in {"extract", "done"} =>
        \A i \in 1..Len(it.yielded) :
            it.yielded[i].type = "File" =>
                [path |-> it.yielded[i].fullpath.parts,
                 executable |-> it.yielded[i].info.executable] \in TreeFlags(trip.tree, <<>>)

\* C16: for every regular file of a packaged tree, the file extract_all has
\* produced has the executable flag of the source file, and the flag traversal
\* of the archive lists for it is the flag of the source file.
C16_ExecutableFlagKept ==
    WholeTree =>
        /\ ListedFlags
        /\ trip.stage = "done" =>
             \A f \in TreeFlags(trip.tree, <<>>) :
                 \E n \in DestNodes :
                     n.path = f.path /\ n.type = "File" /\ n.executable = f.executable

\* The half of the statement the code keeps: the flag in the archive.
C16_ListedFlag == WholeTree => ListedFlags

-----------------------------------------------------------------------------
(* Claims about the bytes of an archive *)

\* The contents of the File entries of a sequence, in a row.
RECURSIVE RawContents(_)
RawContents(src) ==
    IF src = <<>> THEN <<>>
    ELSE (IF Head(src).type = "File" THEN Head(src).source.data ELSE <<>>)
           \o RawContents(Tail(src))

\* The little-endian uint32 at bytes [a..a+4) of the archive written.
WordAt(a) == ToInt(Unpack(SubSeq(pk.dest, a + 1, a + 4), FALSE))

\* The Filesystem of the round trip has been constructed, and nothing was asked
\* of it yet.
JustOpened ==
    /\ trip.stage = "extract" /\ it # Parked
    /\ it.yielded = <<>> /\ ~it.done /\ it.err = "none" /\ pc = "idle" /\ res = "none"

\* C18: the archive create_package_from_files has written is the 8-byte size
\* prefix, then the N bytes of the header Pickle, then the contents of the files
\* in the order they were appended while hashing; the Filesystem constructed on
\* it reads 8 then N bytes, holds the index mapping that was written, and has
\* its payload origin at 8 + N, where every File's bytes start at its offset.
\* (The archive is looked at when it has just been written, the Filesystem from
\* its construction on.)
C18_ArchiveLayout ==
    /\ trip.stage # "pack" => pk.phase = "done" /\ it # Parked
    /\ (pk.phase = "done" /\ trip.stage = "pack") =>
         \A N \in {WordAt(4)} : \A block \in {SubSeq(pk.dest, 9, 8 + N)} :
            /\ Len(pk.dest) = 8 + N + Len(RawContents(pk.src))
            /\ SubSeq(pk.dest, 1, 8) = SizePrefix(block)
            /\ block = HeaderBlock(pk.index)
            /\ SubSeq(pk.dest, 8 + N + 1, Len(pk.dest)) = RawContents(pk.src)
            /\ \A fs \in {FilesystemInit(pk.dest)} :
                 fs.err = "none" /\ fs.read = 8 + N /\ fs.header = pk.index
    /\ (pk.phase = "done" /\ trip.stage # "pack") =>
         /\ it.header = pk.index
         /\ headerSize = 8 + WordAt(4)
         /\ fpData = SubSeq(pk.dest, headerSize + 1, Len(pk.dest))
         /\ JustOpened => fpPos = headerSize /\ position = headerSize
         /\ \A n \in 1..Len(pk.src) :
              pk.src[n].type = "File" =>
                  LET record == RecordAt(it.header.files, pk.src[n].fullpath)
                      start == headerSize + OffsetInt(record.offset)
                  IN SubSeq(pk.dest, start + 1, start + record.size) = pk.src[n].source.data

\* A Filesystem constructed on an archive of two files with content: the
\* second's bytes start past the origin, and its traversal has listed both.
C18_Witness ==
    /\ trip.stage = "done" /\ pk.phase = "done" /\ it # Parked
    /\ headerSize = 8 + WordAt(4) /\ it.header = pk.index
    /\ \E n \in 1..Len(it.yielded) :
         /\ it.yielded[n].type = "File" /\ it.yielded[n].info.size > 0
         /\ OffsetInt(it.yielded[n].info.offset) > 0
    /\ Len(fpData) >= 2

\* C19 as stated: in every archive written, bytes [0..4) are the little-endian
\* uint32 of the size N of the header block at [8..8+N).
C19_FirstWordIsBlockSize ==
    pk.phase = "done" =>
        /\ WordAt(0) = Len(HeaderBlock(pk.index))
        /\ SubSeq(pk.dest, 9, 8 + WordAt(0)) = HeaderBlock(pk.index)

\* C19, amended: in every archive written, bytes [0..4) are the little-endian
\* uint32 4, the payload size of the 8-byte Pickle that is the size prefix, and
\* bytes [4..8) are the little-endian uint32 of the size N of the header block
\* at [8..8+N), the Pickle whose one field is the text of the index.
C19_SecondWordIsBlockSize ==
    pk.phase = "done" =>
        \A N \in {WordAt(4)} : \A block \in {HeaderBlock(pk.index)} :
            /\ WordAt(0) = FMT_UINT32.size
            /\ N = Len(block)
            /\ Len(pk.dest) >= 8 + N
            /\ SubSeq(pk.dest, 9, 8 + N) = block
            /\ \A text \in {ReadString(NewPickleIterator(PickleFromBuffer(SubSeq(pk.dest, 9, 8 + N))))} :
                 text.err = "none" /\ text.val = JsonDumps(pk.index)

\* An archive written with content whose header block takes more than one byte
\* to count.
C19_Witness ==
    /\ pk.phase = "done" /\ pk.tmpfile # <<>> /\ pk.index.files # <<>>
    /\ WordAt(4) > 255 /\ pk.dest[6] # 0
    /\ Len(pk.dest) = 8 + WordAt(4) + Len(pk.tmpfile)

-----------------------------------------------------------------------------
(* Claims about the verification of a File that has bytes *)

\* The content the archive holds for the entry being extracted.
Stored == StreamAt(ex.file.offset, ex.file.size)

\* The number of blocks File.extract streams for the entry.
StreamedBlocks == CeilDiv(ex.file.size, ex.file.integrity.blockSize)

\* The digest of every streamed block i, of min(blockSize, remaining) bytes, is
\* blocks[i].
AllBlocksMatch ==
    LET g == ex.file.integrity IN
    /\ Len(g.blocks) >= StreamedBlocks
    /\ \A i \in 1..StreamedBlocks :
         g.blocks[i] = Sha256(Slice(Stored, (i - 1) * g.blockSize, i * g.blockSize))

WholeMatches == ex.file.integrity.hash = Sha256(Stored)

\* File.extract of a File that has bytes has ended, and its seek did not fail.
Streamed ==
    /\ op.name = "extract" /\ ex.file.size > 0
    /\ pc = "idle" /\ res # "RewindError"

\* C21: once the seek to its offset is done, File.extract of a File of size > 0
\* returns normally exactly when the digest of every streamed block i (of
\* min(blockSize, remaining) bytes) is blocks[i] and the digest of the whole
\* content is integrity.hash; when every block matches and the whole-file digest
\* does not, it fails with an integrity error after the last block, with the whole
\* content read and written.
C21_ExtractVerifies ==
    Streamed =>
        /\ res = "ok" <=> (AllBlocksMatch /\ WholeMatches)
        /\ res = "ok" => out = Stored
        /\ (AllBlocksMatch /\ ~WholeMatches) =>
              /\ res = "IntegrityError" /\ ex.errBlock = -1
              /\ ex.block = StreamedBlocks /\ ex.total_size = 0
              /\ out = Stored
              /\ position = headerSize + ex.file.offset + ex.file.size

\* A file of several blocks, read from a pipe in short reads, whose blocks all
\* match and whose whole-file digest does not.
C21_Witness ==
    /\ Streamed /\ AllBlocksMatch /\ ~WholeMatches
    /\ ~fpSeekable /\ StreamedBlocks > 1
    /\ res = "IntegrityError" /\ ex.block = StreamedBlocks

\* A file of several blocks has been extracted without error.
C21_Returned ==
    /\ Streamed /\ res = "ok" /\ StreamedBlocks > 1 /\ mark.position < headerSize + ex.file.offset

-----------------------------------------------------------------------------
(* Claims about Filesystem.read *)

\* The last call is a direct read(size), started on a stream that still held at
\* least size bytes.
ReadWithinStream ==
    /\ op.name = "read"
    /\ Len(fpData) - (mark.fpPos - headerSize) >= op.arg

\* While the chunks of such a read are delivered: none is longer than BLOCK_SIZE,
\* none is an empty read of the stream, and the cursor and the stream are ahead
\* by the bytes delivered so far; at the end these are size bytes.
ReadAccount ==
    ReadWithinStream =>
        /\ ~rd.big /\ ~mark.eof
        /\ rd.sum + rd.size = op.arg
        /\ position = mark.position + rd.sum
        /\ fpPos = mark.fpPos + rd.sum
        /\ pc = "idle" =>
              /\ res = "ok" /\ rd.sum = op.arg
              /\ position = mark.position + op.arg

\* C22: on a stream that still holds at least size bytes, read(size) ends after
\* finitely many chunks, each of at most BLOCK_SIZE bytes and (in the loop) of at
\* least one, which sum to size bytes, with the cursor ahead by size; read(0)
\* delivers no byte and leaves the cursor; short reads of the stream change nothing.
C22_ReadDelivers ==
    /\ []ReadAccount
    /\ (ReadWithinStream /\ pc = "read") ~> (ReadWithinStream /\ pc = "idle")

\* A read longer than BLOCK_SIZE has ended on a pipe.
C22_Witness ==
    /\ ReadWithinStream /\ pc = "idle" /\ res = "ok"
    /\ op.arg > BLOCK_SIZE /\ ~fpSeekable
    /\ position = mark.position + op.arg

\* A read(0) has ended after an earlier call moved the cursor.
C22_EmptyRead ==
    /\ ReadWithinStream /\ pc = "idle" /\ res = "ok"
    /\ op.arg = 0 /\ mark.position > headerSize /\ position = mark.position

-----------------------------------------------------------------------------
(* Claims about the order of walk_dir *)

\* Every ancestor folder of the i-th entry of the sequence is a Folder entry
\* earlier in the sequence.
AncestorsBefore(src, i) ==
    \A k \in 1..(Len(src[i].fullpath) - 1) :
        \E j \in 1..(i - 1) :
            /\ src[j].type = "Folder"
            /\ src[j].fullpath = SubSeq(src[i].fullpath, 1, k)

ParentsFirst(src) == \A i \in 1..Len(src) : AncestorsBefore(src, i)

\* C23: in the sequence walk_dir produces, with exclude_hidden true or false,
\* every ancestor folder of an entry is yielded as a Folder before the entry, and
\* the descent of create_index never meets a missing ancestor.
C23_AncestorsYielded ==
    /\ ParentsFirst(pk.src)
    /\ pk.err # "KeyError"

\* The same of a walk that keeps the hidden names.
C23_WholeWalk ==
    ~trip.exclude_hidden => ParentsFirst(pk.src) /\ pk.err # "KeyError"

\* A file in a hidden folder whose Folder entry was left out: create_index has
\* failed on its parent.
C23_MissingAncestor ==
    /\ trip.exclude_hidden /\ pk.phase = "failed" /\ pk.err = "KeyError"
    /\ pk.cur.type = "File" /\ Len(pk.cur.fullpath) = 2 /\ Hidden(pk.cur.fullpath[1])
    /\ ~AncestorsBefore(pk.src, pk.n + 1)

-----------------------------------------------------------------------------
(* The opening specification: Filesystem(fp) on the bytes of an archive,   *)
(* then any sequence of seek and read calls                                *)

\* Most the size prefix of an archive says beyond the length of its header block.
MaxOverstate == 2

\* The indexes of the archives opened.
OpenIndexes == {[files |-> <<>>], [files |-> <<Item(NameD, FolderInfo(<<>>))>>]}

\* The bytes of an archive: the 8-byte prefix that declares a header block of
\* `over` bytes more than the block has, the block, the payload.
ArchiveBytes(index, over, payload) ==
    Bind(HeaderBlock(index), LAMBDA block :
        PickleBytes(WriteFmt(NewPickle, FMT_UINT32, FromNat(Len(block) + over)))
            \o block \o payload)

\* Filesystem.__init__ has returned: the cursor and the payload origin are 8 + the
\* declared size, the stream is where the two reads left it.
Opened(archive, fs) ==
    /\ fs.err = "none"
    /\ fpData = SubSeq(archive, 8 + fs.size + 1, Len(archive))
    /\ headerSize = 8 + fs.size
    /\ position = 8 + fs.size
    /\ fpPos = fs.read

InitOpen ==
    /\ fpSeekable \in BOOLEAN
    /\ \E index \in OpenIndexes, over \in 0..MaxOverstate, payload \in SeqsOf(Byte, 0, MaxStream) :
         \E archive \in {ArchiveBytes(index, over, payload)} :
            \E fs \in {FilesystemInit(archive)} : Opened(archive, fs)
    /\ pc = "idle" /\ op = [name |-> "none", arg |-> 0] /\ res = "none"
    /\ rd = NoRd /\ ex = NoEx /\ out = <<>>
    /\ mark = [position |-> position, fpPos |-> fpPos, reads |-> FALSE,
               eof |-> FALSE, orig |-> <<>>, prev |-> [name |-> "none", arg |-> 0],
               prevRes |-> "none"]
    /\ it = Parked /\ pk = Parked /\ trip = Parked /\ pickle = Parked

SpecOpen == InitOpen /\ [][NextReader]_vars

-----------------------------------------------------------------------------
(* Claims about the cursor *)

\* C24: in every state of a Filesystem the cursor is at or past the payload
\* origin 8 + header size and equals the offset of the underlying stream, and no
\* step of a seek or a read, failed ones included, moves it back.
C24_CursorIsStreamOffset ==
    /\ [](position >= headerSize /\ position = fpPos)
    /\ [][position' >= position]_vars

\* The cursor is at or past the payload origin and never moves back; when the
\* two reads of __init__ left the stream at the payload origin, the cursor is the
\* offset of the stream from then on.
C24_CursorAdvances ==
    /\ [](position >= headerSize)
    /\ [][position' >= position]_vars
    /\ (position = fpPos) => [](position = fpPos)

\* A Filesystem opened on an archive whose prefix says more than the stream
\* holds: the cursor is past the stream's offset after a read and a failed seek.
C24_CursorAhead ==
    /\ position > fpPos /\ position = headerSize
    /\ pc = "idle" /\ op.name = "read" /\ res = "ok"

-----------------------------------------------------------------------------
(* The entry-sequence specification: create_package_from_files on a        *)
(* sequence of entries of the caller's making, then extract_all            *)

\* Largest size of a File entry of these sequences.
MaxEntrySize == 2

\* A File entry of n bytes, as handle_file builds it.
EntryFile(fullpath, n) ==
    FileEntry(fullpath, n, FALSE, FreshIntegrity(WalkBlockSize), Source(Content(n), FALSE))

\* Entry sequences: three files of a directory; a folder, a file beside it and
\* then a file in it; a folder with its file and symlink and then a file beside
\* it; two folders filled in the other order; a file whose folder never comes.
EntrySequences ==
    UNION {
        {<<EntryFile(<<NameA>>, n1), EntryFile(<<NameB>>, n2), EntryFile(<<NameD>>, n3)>>,
         <<FolderEntry(<<NameD>>), EntryFile(<<NameB>>, n1), EntryFile(<<NameD, NameA>>, n2)>>,
         <<FolderEntry(<<NameD>>), EntryFile(<<NameD, NameA>>, n1),
           SymlinkEntry(<<NameD, NameB>>, NameA), EntryFile(<<NameB>>, n2)>>,
         <<FolderEntry(<<NameA>>), FolderEntry(<<NameB>>), EntryFile(<<NameB, NameA>>, n1),
           EntryFile(<<NameA, NameA>>, n2)>>,
         <<EntryFile(<<NameA, NameB>>, n1)>>}
      : n1, n2, n3 \in 0..MaxEntrySize}

InitFiles ==
    /\ QuietReader
    /\ \E src \in EntrySequences :
         /\ trip = NewTrip({}, FALSE)
         /\ pk = NewPack(src)
    /\ it = Parked /\ pickle = Parked

SpecFiles == InitFiles /\ [][NextTrip]_vars

-----------------------------------------------------------------------------
(* Claims about the order of extraction *)

\* The offsets of the File entries among nodes, in their order.
RECURSIVE FileOffsets(_)
FileOffsets(nodes) ==
    IF nodes = <<>> THEN <<>>
    ELSE (IF Head(nodes).type = "File" THEN <<OffsetInt(Head(nodes).info.offset)>> ELSE <<>>)
           \o FileOffsets(Tail(nodes))

NonDecreasing(ns) == \A i \in 1..(Len(ns) - 1) : ns[i] <= ns[i + 1]
Increasing(ns) == \A i \in 1..(Len(ns) - 1) : ns[i] < ns[i + 1]

\* The archive has been opened and is being traversed.
Traversing == trip.stage \in {"extract", "done"} \/ (trip.stage = "failed" /\ it # Parked)

\* C25: for an archive made from an entry sequence in which parents precede
\* their children, traversal visits the File entries in non-decreasing offset
\* order, and extract_all never fails with a rewind error.
C25_TraversalFollowsOffsets ==
    ParentsFirst(pk.src) =>
        /\ Traversing => NonDecreasing(FileOffsets(it.yielded))
        /\ res # "RewindError"

\* Every entry that lies under an earlier Folder entry follows it at once, before
\* any entry outside the folder: the sequence is in the order of the traversal.
InTraversalOrder(src) ==
    \A i, j, k \in 1..Len(src) :
        (i < j /\ j < k /\ IsPrefix(src[i].fullpath, src[k].fullpath))
            => IsPrefix(src[i].fullpath, src[j].fullpath)

\* The same of sequences in the order of the traversal whose files all have
\* bytes: the offsets increase and no seek rewinds.
C25_OrderedNonEmpty ==
    (/\ ParentsFirst(pk.src) /\ InTraversalOrder(pk.src)
     /\ \A i \in 1..Len(pk.src) : pk.src[i].type = "File" => pk.src[i].size > 0) =>
        /\ Traversing => Increasing(FileOffsets(it.yielded))
        /\ res # "RewindError"

\* A file in a folder was packaged after a file beside the folder: traversal
\* reaches it first, and the file beside the folder then lies behind the cursor.
C25_RewindOnSibling ==
    /\ ParentsFirst(pk.src) /\ Traversing
    /\ ~NonDecreasing(FileOffsets(it.yielded))
    /\ pc = "idle" /\ res = "RewindError" /\ trip.stage = "extract"

-----------------------------------------------------------------------------
(* Claims about what the traversal leaves alone *)

\* A pass of the traversal has ended: the generator returned or raised.
PassEnded == it.done \/ it.err # "none"

\* C26: no step of the traversal reads from or seeks the underlying stream, or
\* changes the cursor or the parsed header; and a second pass over the same
\* Filesystem yields the entries of the first, in the same order, and ends as
\* the first did.
C26_TraversalIsPure ==
    /\ [][/\ UNCHANGED <<fpData, fpPos, fpSeekable, headerSize, position>>
          /\ it'.header = it.header]_vars
    /\ [](it.again => IsPrefix(it.yielded, it.prev))
    /\ []((it.again /\ PassEnded) => (it.yielded = it.prev /\ it.err = it.prevErr))

\* A second pass over an index with a folder and its children has ended.
C26_Witness ==
    /\ it.again /\ it.done /\ it.yielded = it.prev
    /\ Len(it.yielded) = 3 /\ it.yielded[1].type = "Folder"
    /\ position = headerSize /\ fpPos = headerSize

-----------------------------------------------------------------------------
(* Claims about what a failed packaging leaves behind *)

\* The errors create_index raises: a taken name, a source that ends early, a
\* missing ancestor.
IndexErrors == {"FileExistsError", "PrematureEOF", "KeyError"}

\* C27: while create_index runs, and when it has failed (taken name, premature
\* end of a source, missing ancestor), no byte is written to the destination:
\* the prefix, the header and the payload are written in the one step that
\* follows the return of create_index for the whole sequence; the temporary
\* file is open while the index is built and released when packaging has ended,
\* with or without error.
C27_NothingWrittenOnFailure ==
    /\ [](pk.phase \in {"index", "file", "failed"} => pk.dest = <<>>)
    /\ [](pk.phase = "failed" => pk.err \in IndexErrors /\ ~pk.tmpOpen)
    /\ [](pk.phase = "done" => pk.err = "none" /\ ~pk.tmpOpen /\ pk.n = Len(pk.src)
                                 /\ Len(pk.dest) >= 8 + Len(pk.tmpfile))
    /\ [](pk.phase \in {"index", "file"} => pk.tmpOpen)
    /\ [][pk'.dest # pk.dest =>
            /\ pk.phase = "index" /\ pk.n = Len(pk.src)
            /\ pk'.phase = "done" /\ pk'.index = pk.index]_vars

\* Packaging has failed on the second file, after bytes of the first went to
\* the temporary file.
C27_Witness ==
    /\ pk.phase = "failed" /\ pk.err = "PrematureEOF"
    /\ pk.n >= 1 /\ pk.tmpfile # <<>> /\ pk.dest = <<>> /\ ~pk.tmpOpen

=============================================================================
